---- MODULE Spec2Model ----
(***************************************************************************)
(* A model of the graph-search package: the directed weighted Graph with   *)
(* its two adjacency indexes (pbf.go), the binary min-heap and the         *)
(* Dijkstra engine with its shortest-path tree and PathCoord               *)
(* (dijkstra.go), the Bitset, and the k-d tree with its range and          *)
(* nearest-neighbour queries (kdtree.go).                                  *)
(*                                                                         *)
(* Go slices are 0-based; the sequences below are 1-based, so slice        *)
(* element i is sequence element i + 1 (operator At).  float32 costs and   *)
(* weights are modelled by the naturals, and float64 coordinates and radii *)
(* by the integers, on which +, * and < are exact.                         *)
(***************************************************************************)
EXTENDS Integers, Sequences, FiniteSets, TLC

VARIABLES
    g,          \* the Graph under construction / the input graph of Run
    nops,       \* the number of bounded calls the caller has made
    lastCall,   \* the last Graph or Heap operation called, its arguments and result
    heap,       \* a Heap used on its own
    drained,    \* the costs a caller has read by Min before each DeleteMin while emptying the heap
    pc,         \* the position of the running caller
    criteria,   \* the Criteria given to NewDijkstra
    search,     \* the DijkstraSearch value Run works on
    currentID,  \* Run's local currentID
    min,        \* Run's local min (the entry peeked at the top of the iteration)
    ei,         \* Run's position in the range over g.OutgoingEdges[min.Value]
    response,   \* the Response Run returned
    path,       \* the last PathCoord call: its target and the nodes it visited
    points,     \* the vectors given to BuildKDTree, in the caller's order
    kdtree,     \* the KDTree BuildKDTree returned
    inserted,   \* the number of Insert calls made on search.pq since NewDijkstra began
    stale,      \* whether the iteration of Run under way found a visited node at the root
    bitset,     \* a Bitset used on its own
    written,    \* for every index, the value of the last Set call on it (FALSE before any)
    mem,        \* the objects two searches point to: heaps, big.Ints and cost maps
    runs        \* two searches over one graph: each one's DijkstraSearch and Run's locals

vars == <<g, nops, lastCall, heap, drained, pc, criteria, search, currentID, min, ei,
          response, path, points, kdtree, inserted, stale,
          bitset, written, mem, runs>>

(***************************************************************************)
(* Bounds of the model.                                                    *)
(***************************************************************************)
MaxGraphNodes == 2      \* SpecGraph: AddNode calls
MaxRelations == 2       \* SpecGraph: RelateNodes calls
MaxGraphWeight == 2     \* SpecGraph: weights 1..MaxGraphWeight
MaxHeapOps == 6         \* SpecHeap: Insert and DeleteMin calls before the heap is emptied
MaxHeapCost == 2        \* SpecHeap: costs 0..MaxHeapCost
NumNodes == 3           \* Spec: nodes of the input graph
MaxEdges == 2           \* Spec: RelateNodes calls that built the input graph
MaxWeight == 2          \* Spec: edge weights 0..MaxWeight
MaxSources == 2         \* Spec: length of Criteria.Source
MaxTargets == 2         \* Spec: length of Criteria.Targets
MaxPoints == 4          \* SpecKD: vectors given to BuildKDTree
MaxDim == 2             \* SpecKD: components of a vector (1..MaxDim)
MaxCoord == 2           \* SpecKD: coordinates 0..MaxCoord
MaxRadius == 2          \* SpecKD: radii -1..MaxRadius
MaxQueries == 1         \* SpecKD: queries made on one index
MaxBitIndex == 5        \* SpecBitset: indexes 0..MaxBitIndex
MaxRuns == 2            \* SpecAgain: Run calls made on one DijkstraSearch value

(***************************************************************************)
(* Slices.                                                                 *)
(***************************************************************************)
At(s, i) == s[i + 1]

SetAt(s, i, v) == [s EXCEPT ![i + 1] = v]

\* Go's integer division truncates toward zero.
GoDiv(a, b) == IF a >= 0 THEN a \div b ELSE -((-a) \div b)

(***************************************************************************)
(* Graph (pbf.go).                                                         *)
(***************************************************************************)
Bidirectional == 0

LeftToRight == 1

RightToLeft == 2

EdgeDirections == {Bidirectional, LeftToRight, RightToLeft}

MetaData(distance) == [Speed |-> 0, Distance |-> distance, RoadType |-> ""]

Node(id, location, rank) == [ID |-> id, Location |-> location, Rank |-> rank]

Edge(id, weight, metaData) == [ID |-> id, Weight |-> weight, Metadata |-> metaData]

EmptyGraph == [Nodes |-> <<>>, OutgoingEdges |-> <<>>, IncomingEdges |-> <<>>]

\* Mutant of AddNode: the caller's ID field is kept.
AddNodeKeepsID(gr, n) ==
    [graph |-> [Nodes |-> Append(gr.Nodes, n),
                OutgoingEdges |-> Append(gr.OutgoingEdges, <<>>),
                IncomingEdges |-> Append(gr.IncomingEdges, <<>>)],
     id |-> Len(gr.Nodes)]

\* AddNode: the graph after the call and the id returned.
AddNode(gr, n) ==
    LET id == Len(gr.Nodes)
    IN [graph |-> [Nodes |-> Append(gr.Nodes, [n EXCEPT !.ID = id]),
                   OutgoingEdges |-> Append(gr.OutgoingEdges, <<>>),
                   IncomingEdges |-> Append(gr.IncomingEdges, <<>>)],
        id |-> id]

addOutgoingEdge(gr, from, to, weight, metaData) ==
    [gr EXCEPT !.OutgoingEdges =
        SetAt(gr.OutgoingEdges, from,
              Append(At(gr.OutgoingEdges, from), Edge(to, weight, metaData)))]

addIncomingEdge(gr, from, to, weight, metaData) ==
    [gr EXCEPT !.IncomingEdges =
        SetAt(gr.IncomingEdges, to,
              Append(At(gr.IncomingEdges, to), Edge(from, weight, metaData)))]

RelateBidirectional(gr, a, b, weight, metaData) ==
    LET g1 == addOutgoingEdge(gr, a.ID, b.ID, weight, metaData)
        g2 == addIncomingEdge(g1, b.ID, a.ID, weight, metaData)
        g3 == addOutgoingEdge(g2, b.ID, a.ID, weight, metaData)
    IN addIncomingEdge(g3, a.ID, b.ID, weight, metaData)

\* Mutant of RelateLeftToRight: the incoming edge is written as in the first
\* half of the Bidirectional case.
RelateLeftToRightSwapped(gr, a, b, weight, metaData) ==
    addIncomingEdge(addOutgoingEdge(gr, a.ID, b.ID, weight, metaData),
                    b.ID, a.ID, weight, metaData)

RelateLeftToRight(gr, a, b, weight, metaData) ==
    addIncomingEdge(addOutgoingEdge(gr, a.ID, b.ID, weight, metaData),
                    a.ID, b.ID, weight, metaData)

\* Mutant of RelateRightToLeft: related as LeftToRight.
RelateRightToLeftAsLeft(gr, a, b, weight, metaData) ==
    addIncomingEdge(addOutgoingEdge(gr, a.ID, b.ID, weight, metaData),
                    a.ID, b.ID, weight, metaData)

RelateRightToLeft(gr, a, b, weight, metaData) ==
    addIncomingEdge(addOutgoingEdge(gr, b.ID, a.ID, weight, metaData),
                    b.ID, a.ID, weight, metaData)

RelateNodes(gr, a, b, weight, dir, metaData) ==
    CASE dir = Bidirectional -> RelateBidirectional(gr, a, b, weight, metaData)
      [] dir = LeftToRight -> RelateLeftToRight(gr, a, b, weight, metaData)
      [] dir = RightToLeft -> RelateRightToLeft(gr, a, b, weight, metaData)
      [] OTHER -> gr

(***************************************************************************)
(* Heap (dijkstra.go).                                                     *)
(***************************************************************************)
ErrHeapEmpty == "heap is empty"

NoError == "nil"

HNode(value, cost, depth, prev, dist) ==
    [Value |-> value, Cost |-> cost, Depth |-> depth, Previous |-> prev, Dist |-> dist]

\* The zero value HNode{}.
ZeroHNode == HNode(0, 0, 0, 0, 0)

Create == [items |-> <<>>, size |-> 0]

IsEmpty(h) == h.size = 0

parentIndex(i) == GoDiv(i - 1, 2)

leftChildIndex(i) == 2 * i + 1

rightChildIndex(i) == 2 * i + 2

hasLeftChild(h, i) == leftChildIndex(i) < h.size

hasRightChild(h, i) == rightChildIndex(i) < h.size

hasParent(h, i) == parentIndex(i) >= 0

leftChild(h, i) == At(h.items, leftChildIndex(i))

rightChild(h, i) == At(h.items, rightChildIndex(i))

parent(h, i) == At(h.items, parentIndex(i))

\* Mutant of swap: items[i] is overwritten and the entry it held is not kept.
swapNoTemp(h, i, j) == [h EXCEPT !.items = SetAt(h.items, i, At(h.items, j))]

\* The three assignments of a swap of items[i] and items[j].
swap(h, i, j) ==
    [h EXCEPT !.items = SetAt(SetAt(h.items, i, At(h.items, j)), j, At(h.items, i))]

\* Mutant of mustMoveUp: an entry also moves above a parent of equal cost.
mustMoveUpOnTie(h, i) == i > 0 /\ parent(h, i).Cost >= At(h.items, i).Cost

\* The condition of heapifyUp's loop.
mustMoveUp(h, i) == hasParent(h, i) /\ parent(h, i).Cost > At(h.items, i).Cost

RECURSIVE heapifyUpFrom(_, _)
heapifyUpFrom(h, i) ==
    IF mustMoveUp(h, i)
    THEN heapifyUpFrom(swap(h, i, parentIndex(i)), parentIndex(i))
    ELSE h

\* The indexes heapifyUp's loop variable takes, from i on, in order.
RECURSIVE heapifyUpPath(_, _)
heapifyUpPath(h, i) ==
    IF mustMoveUp(h, i)
    THEN <<i>> \o heapifyUpPath(swap(h, i, parentIndex(i)), parentIndex(i))
    ELSE <<i>>

\* Mutant of heapifyUp: the new entry is moved up one level at most.
heapifyUpOnce(h) ==
    IF mustMoveUp(h, h.size - 1) THEN swap(h, h.size - 1, parentIndex(h.size - 1)) ELSE h

heapifyUp(h) == heapifyUpFrom(h, h.size - 1)

\* Mutant of smallerChildIndex: the right child is never looked at.
smallerChildLeftOnly(h, i) == leftChildIndex(i)

\* heapifyDown's choice of the child to compare with.
smallerChildIndex(h, i) ==
    IF hasRightChild(h, i) /\ rightChild(h, i).Cost < leftChild(h, i).Cost
    THEN rightChildIndex(i)
    ELSE leftChildIndex(i)

\* Mutant of heapifyDown: the entry moved to the root stays there.
heapifyDownNone(h, i) == h

RECURSIVE heapifyDown(_, _)
heapifyDown(h, i) ==
    IF hasLeftChild(h, i)
    THEN LET c == smallerChildIndex(h, i)
         IN IF At(h.items, i).Cost < At(h.items, c).Cost
            THEN h
            ELSE heapifyDown(swap(h, i, c), c)
    ELSE h

Insert(h, n) == heapifyUp([items |-> Append(h.items, n), size |-> h.size + 1])

\* Mutant of Min: no error on an empty heap.
MinNoError(h) ==
    IF ~IsEmpty(h)
    THEN [node |-> At(h.items, 0), err |-> NoError]
    ELSE [node |-> ZeroHNode, err |-> NoError]

Min(h) ==
    IF ~IsEmpty(h)
    THEN [node |-> At(h.items, 0), err |-> NoError]
    ELSE [node |-> ZeroHNode, err |-> ErrHeapEmpty]

\* Mutant of DeleteMin: the moved element is not sifted down.
DeleteMinNoSift(h) ==
    IF IsEmpty(h)
    THEN [heap |-> h, err |-> ErrHeapEmpty]
    ELSE LET moved == SetAt(h.items, 0, At(h.items, h.size - 1))
         IN [heap |-> [items |-> SubSeq(moved, 1, Len(moved) - 1), size |-> h.size - 1],
             err |-> NoError]

DeleteMin(h) ==
    IF IsEmpty(h)
    THEN [heap |-> h, err |-> ErrHeapEmpty]
    ELSE LET moved == SetAt(h.items, 0, At(h.items, h.size - 1))
             cut == [items |-> SubSeq(moved, 1, Len(moved) - 1), size |-> h.size - 1]
         IN [heap |-> heapifyDown(cut, 0), err |-> NoError]

(***************************************************************************)
(* Bitset: a big.Int, here the natural number whose bits they are.         *)
(***************************************************************************)
NewBigInt == 0

Exists(b, i) == (b \div (2 ^ i)) % 2 = 1

\* Mutant of Set: a bit once set is never cleared.
SetNeverClears(b, i, value) ==
    IF value /\ ~Exists(b, i) THEN b + 2 ^ i ELSE b

Set(b, i, value) ==
    IF value
    THEN IF Exists(b, i) THEN b ELSE b + 2 ^ i
    ELSE IF Exists(b, i) THEN b - 2 ^ i ELSE b

\* Len: big.Int.BitLen, the number of bits of the absolute value, 0 for 0.
RECURSIVE BitLen(_)
BitLen(b) == IF b = 0 THEN 0 ELSE 1 + BitLen(b \div 2)

(***************************************************************************)
(* Costs: a map from node id to cost.                                      *)
(***************************************************************************)
\* math.MaxFloat32, above every cost of the model.
INFINITE == 2147483647

ErrPathNotFound == "path not found"

EmptyCosts == [id \in {} |-> 0]

\* m[k] = v
MapSet(m, k, v) == [id \in DOMAIN m \cup {k} |-> IF id = k THEN v ELSE m[id]]

\* m[k], the zero value when k is absent
MapGet(m, k) == IF k \in DOMAIN m THEN m[k] ELSE 0

\* Mutant of GetCost: a plain map read, the zero value and no error for an absent id.
GetCostUnchecked(cs, id) == [cost |-> MapGet(cs, id), err |-> NoError]

GetCost(cs, id) ==
    IF id \in DOMAIN cs
    THEN [cost |-> cs[id], err |-> NoError]
    ELSE [cost |-> INFINITE, err |-> ErrPathNotFound]

(***************************************************************************)
(* DijkstraSearch.                                                         *)
(***************************************************************************)
Criteria(source, targets) == [Source |-> source, Targets |-> targets]

\* Mutant of addSource: the source's cost is not seeded.
addSourceNoCost(s, src) ==
    [s EXCEPT !.pq = Insert(@, HNode(src, 0, 0, 0, 0)),
              !.sources = Set(@, src, TRUE)]

\* Mutant of addSource: a source id listed again is skipped.
addSourceOnce(s, src) ==
    IF Exists(s.sources, src)
    THEN s
    ELSE [s EXCEPT !.costs = MapSet(@, src, 0),
                   !.pq = Insert(@, HNode(src, 0, 0, 0, 0)),
                   !.sources = Set(@, src, TRUE)]

\* The body of NewDijkstra's loop for source src.
addSource(s, src) ==
    [s EXCEPT !.costs = MapSet(@, src, 0),
              !.pq = Insert(@, HNode(src, 0, 0, 0, 0)),
              !.sources = Set(@, src, TRUE)]

RECURSIVE addSources(_, _, _)
addSources(s, source, k) ==
    IF k > Len(source) THEN s ELSE addSources(addSource(s, source[k]), source, k + 1)

NewDijkstra(c) ==
    addSources([pq |-> Create,
                visited |-> NewBigInt,
                previous |-> EmptyGraph,
                costs |-> EmptyCosts,
                sources |-> NewBigInt,
                target |-> IF Len(c.Targets) > 0 THEN c.Targets[1] ELSE -1],
               c.Source, 1)

\* Mutant of reachTarget: node 0 is not taken for a target.
reachTargetAboveZero(s, currentValue) == s.target > 0 /\ currentValue = s.target

reachTarget(s, currentValue) == s.target >= 0 /\ currentValue = s.target

\* Mutant of wasVisited: no node counts as visited.
wasVisitedNever(s, id) == FALSE

wasVisited(s, id) == Exists(s.visited, id)

isFinished(s) == IsEmpty(s.pq)

\* Mutant of linksPrevious: every new tree node is linked.
linksPreviousAlways(m, id) == TRUE

\* Whether addPrevious links the new tree node to the entry's Previous.
linksPrevious(m, id) == m.Previous # id

\* Mutant of addPrevious: the tree edge is made from the new tree node to the
\* entry's Previous.
addPreviousReversed(s) ==
    LET m == Min(s.pq).node
        added == AddNode(s.previous, Node(0, 0, m.Value))
        id == added.id
    IN [search |-> [s EXCEPT !.previous =
                       IF linksPrevious(m, id)
                       THEN RelateNodes(added.graph, Node(m.Previous, 0, 0), Node(id, 0, 0),
                                        m.Cost, RightToLeft, MetaData(m.Dist))
                       ELSE added.graph],
        id |-> id]

\* addPrevious: the search after the call and the tree id returned.
addPrevious(s) ==
    LET m == Min(s.pq).node
        added == AddNode(s.previous, Node(0, 0, m.Value))
        id == added.id
    IN [search |-> [s EXCEPT !.previous =
                       IF linksPrevious(m, id)
                       THEN RelateNodes(added.graph, Node(m.Previous, 0, 0), Node(id, 0, 0),
                                        m.Cost, LeftToRight, MetaData(m.Dist))
                       ELSE added.graph],
        id |-> id]

\* Mutant of improves: a candidate only replaces a missing cost.
improvesOnlyAbsent(currentPathValue, edgeC) == edgeC = INFINITE

\* Mutant of improves: every candidate replaces the neighbour's cost.
improvesAlways(currentPathValue, edgeC) == TRUE

\* Mutant of improves: a candidate equal to the neighbour's cost replaces it too.
improvesOrEqual(currentPathValue, edgeC) == currentPathValue <= edgeC

\* Relax's test of the candidate cost against the neighbour's cost.
improves(currentPathValue, edgeC) == currentPathValue < edgeC

\* Mutant of Relax: the candidate cost is the weight of the edge alone.
RelaxEdgeWeight(s, v, id, w, distance) ==
    LET m == Min(s.pq).node
    IN IF ~wasVisited(s, v.ID)
       THEN LET cost == MapGet(s.costs, m.Value)
                currentPathValue == w
                currentDistancePathValue == cost + distance
                edgeC == GetCost(s.costs, v.ID).cost
            IN IF improves(currentPathValue, edgeC)
               THEN [s EXCEPT !.costs = MapSet(@, v.ID, currentPathValue),
                              !.pq = Insert(@, HNode(v.ID, currentPathValue, m.Depth + 1,
                                                     id, currentDistancePathValue))]
               ELSE s
       ELSE s

\* Mutant of Relax: the entry's Dist is the distance of the edge alone.
RelaxEdgeDistance(s, v, id, w, distance) ==
    LET m == Min(s.pq).node
    IN IF ~wasVisited(s, v.ID)
       THEN LET cost == MapGet(s.costs, m.Value)
                currentPathValue == cost + w
                edgeC == GetCost(s.costs, v.ID).cost
            IN IF improves(currentPathValue, edgeC)
               THEN [s EXCEPT !.costs = MapSet(@, v.ID, currentPathValue),
                              !.pq = Insert(@, HNode(v.ID, currentPathValue, m.Depth + 1,
                                                     id, distance))]
               ELSE s
       ELSE s

\* Mutant of Relax: a node that already has a cost gets the lower cost in the
\* cost map and no new queue entry.
RelaxInsertOnce(s, v, id, w, distance) ==
    LET m == Min(s.pq).node
    IN IF ~wasVisited(s, v.ID)
       THEN LET cost == MapGet(s.costs, m.Value)
                currentPathValue == cost + w
                currentDistancePathValue == cost + distance
                edgeC == GetCost(s.costs, v.ID).cost
            IN IF improves(currentPathValue, edgeC)
               THEN [s EXCEPT !.costs = MapSet(@, v.ID, currentPathValue),
                              !.pq = IF edgeC = INFINITE
                                     THEN Insert(@, HNode(v.ID, currentPathValue, m.Depth + 1,
                                                          id, currentDistancePathValue))
                                     ELSE @]
               ELSE s
       ELSE s

Relax(s, v, id, w, distance) ==
    LET m == Min(s.pq).node
    IN IF ~wasVisited(s, v.ID)
       THEN LET cost == MapGet(s.costs, m.Value)
                currentPathValue == cost + w
                currentDistancePathValue == cost + distance
                edgeC == GetCost(s.costs, v.ID).cost
            IN IF improves(currentPathValue, edgeC)
               THEN [s EXCEPT !.costs = MapSet(@, v.ID, currentPathValue),
                              !.pq = Insert(@, HNode(v.ID, currentPathValue, m.Depth + 1,
                                                     id, currentDistancePathValue))]
               ELSE s
       ELSE s

Response(s) == [SearchSpace |-> s.previous, Costs |-> s.costs]

(***************************************************************************)
(* A DijkstraSearch in memory.  The struct holds pointers: pq is a *Heap,  *)
(* visited and sources hold a *big.Int, costs is a map; previous is a      *)
(* Graph held by value in Run's receiver.  A memory is the sequence of the *)
(* objects allocated so far and a pointer is an index into it.             *)
(***************************************************************************)
\* The DijkstraSearch s with its pointers followed in memory m: the value the
\* operators above work on.
deref(m, s) ==
    [pq |-> At(m, s.pq),
     visited |-> At(m, s.visited),
     previous |-> s.previous,
     costs |-> At(m, s.costs),
     sources |-> At(m, s.sources),
     target |-> s.target]

\* The memory m after the objects s points to got the contents they have in v.
writeThrough(m, s, v) ==
    SetAt(SetAt(SetAt(SetAt(m, s.pq, v.pq), s.visited, v.visited), s.costs, v.costs),
          s.sources, v.sources)

\* Mutant of NewDijkstraIn: the cost map is allocated once and every later search
\* uses that one.
NewDijkstraSharedCosts(m, c) ==
    LET v == NewDijkstra(c)
        a == Len(m)
    IN IF a = 0
       THEN [mem |-> <<v.pq, v.visited, v.costs, v.sources>>,
             search |-> [pq |-> 0, visited |-> 1, previous |-> v.previous, costs |-> 2,
                         sources |-> 3, target |-> v.target]]
       ELSE [mem |-> SetAt(m, 2, [id \in DOMAIN At(m, 2) \cup DOMAIN v.costs |->
                                    IF id \in DOMAIN v.costs THEN 0 ELSE At(m, 2)[id]])
                       \o <<v.pq, v.visited, v.costs, v.sources>>,
             search |-> [pq |-> a, visited |-> a + 1, previous |-> v.previous, costs |-> 2,
                         sources |-> a + 3, target |-> v.target]]

\* NewDijkstra(c) called with the memory m: Create(), the two NewBigInt() and
\* make(Costs, 0) allocate four new objects, which the loop over c.Source fills.
NewDijkstraIn(m, c) ==
    LET v == NewDijkstra(c)
        a == Len(m)
    IN [mem |-> m \o <<v.pq, v.visited, v.costs, v.sources>>,
        search |-> [pq |-> a, visited |-> a + 1, previous |-> v.previous, costs |-> a + 2,
                    sources |-> a + 3, target |-> v.target]]

\* A call of Run: its receiver and its locals, before the first statement.
RunOf(c, s) ==
    [criteria |-> c, search |-> s, pc |-> "ready", currentID |-> 0, min |-> ZeroHNode,
     ei |-> 0, response |-> [SearchSpace |-> EmptyGraph, Costs |-> s.costs]]

\* The statements of Run for the call r in memory m: the call and the memory
\* after the statement.  Run is entered: currentID := 0.
runBegin(m, r) == [run |-> [r EXCEPT !.pc = "loop", !.currentID = 0], mem |-> m]

\* The loop condition fails: Run returns the tree and the cost map (a reference).
runExhausted(m, r) ==
    [run |-> [r EXCEPT !.pc = "done",
                       !.response = [SearchSpace |-> r.search.previous,
                                     Costs |-> r.search.costs]],
     mem |-> m]

\* The top of an iteration, up to the target test.
runVisit(m, r) ==
    LET s == deref(m, r.search)
        mn == Min(s.pq).node
        added == IF ~wasVisited(s, mn.Value)
                 THEN addPrevious(s)
                 ELSE [search |-> s, id |-> r.currentID]
        marked == [added.search EXCEPT !.visited = Set(@, mn.Value, TRUE)]
        kept == [r.search EXCEPT !.previous = marked.previous]
    IN [run |-> IF reachTarget(marked, mn.Value)
                THEN [r EXCEPT !.search = kept, !.min = mn, !.currentID = added.id,
                               !.pc = "done",
                               !.response = [SearchSpace |-> kept.previous,
                                             Costs |-> kept.costs]]
                ELSE [r EXCEPT !.search = kept, !.min = mn, !.currentID = added.id,
                               !.pc = "relax", !.ei = 0],
        mem |-> writeThrough(m, r.search, marked)]

\* One round of the range over gr.OutgoingEdges[min.Value].
runRelax(m, gr, r) ==
    LET e == At(At(gr.OutgoingEdges, r.min.Value), r.ei)
        relaxed == Relax(deref(m, r.search), At(gr.Nodes, e.ID), r.currentID, e.Weight,
                         e.Metadata.Distance)
    IN [run |-> [r EXCEPT !.ei = r.ei + 1], mem |-> writeThrough(m, r.search, relaxed)]

\* search.pq.DeleteMin()
runDeleteMin(m, r) ==
    [run |-> [r EXCEPT !.pc = "loop"],
     mem |-> SetAt(m, r.search.pq, DeleteMin(At(m, r.search.pq)).heap)]

\* The next statement of the call r.
runStep(m, gr, r) ==
    CASE r.pc = "ready" -> runBegin(m, r)
      [] r.pc = "loop" /\ isFinished(deref(m, r.search)) -> runExhausted(m, r)
      [] r.pc = "loop" /\ ~isFinished(deref(m, r.search)) -> runVisit(m, r)
      [] r.pc = "relax" /\ r.ei < Len(At(gr.OutgoingEdges, r.min.Value)) -> runRelax(m, gr, r)
      [] r.pc = "relax" /\ r.ei = Len(At(gr.OutgoingEdges, r.min.Value)) -> runDeleteMin(m, r)
      [] OTHER -> [run |-> r, mem |-> m]

\* The call r executed to its return with no other call between its statements.
RECURSIVE runAlone(_, _, _)
runAlone(m, gr, r) ==
    IF r.pc = "done"
    THEN [run |-> r, mem |-> m]
    ELSE runAlone(runStep(m, gr, r).mem, gr, runStep(m, gr, r).run)

\* The Response of a call that returned, with the cost map it refers to.
ResponseIn(m, r) ==
    [SearchSpace |-> r.response.SearchSpace, Costs |-> At(m, r.response.Costs)]

\* Mutant of callerAfter: Run declared on *DijkstraSearch, its statements acting
\* on the caller's value.
callerAfterByPointer(s, r) == r.search

\* The caller's DijkstraSearch value s after a statement of the call r made on
\* it: Run has a value receiver, so the statement acts on Run's copy and s is as
\* it was.
callerAfter(s, r) == s

(***************************************************************************)
(* SearchSpace.PathCoord: the tree ids it dequeues, in order, and the      *)
(* coordinates it returns (a node's Location stands for its [lng, lat]).   *)
(***************************************************************************)
RECURSIVE pathWalk(_, _, _)
pathWalk(sp, queue, done) ==
    IF queue = <<>>
    THEN done
    ELSE LET nodeID == Head(queue)
             incoming == At(sp.IncomingEdges, nodeID)
         IN pathWalk(sp,
                     Tail(queue) \o [k \in 1..Len(incoming) |-> incoming[k].ID],
                     Append(done, nodeID))

PathCoord(sp, t, gr) ==
    LET ids == pathWalk(sp, <<t>>, <<>>)
    IN [k \in 1..Len(ids) |-> At(gr.Nodes, At(sp.Nodes, ids[k]).Rank).Location]

(***************************************************************************)
(* Vector and KDTree (kdtree.go).  A *node is a sequence: <<>> is nil and  *)
(* <<n>> points to the node n.                                             *)
(***************************************************************************)
Vector(id, components) == [ID |-> id, Components |-> components]

nil == <<>>

node(v, l, r) == <<[v |-> v, l |-> l, r |-> r]>>

\* math.MaxFloat64, above every squared distance of the model.
MaxFloat64 == 2147483647

\* The orders of 1..n.
Orders(n) == {p \in [1..n -> 1..n] : \A i, j \in 1..n : p[i] = p[j] => i = j}

\* Mutant of sortSlice: the slice is left in the caller's order.
sortSliceNone(vectors, axis) == {vectors}

\* sort.Slice with the less function of build: the sort is not stable, so the
\* result is any order of vectors in which no element is less than an earlier one.
sortSlice(vectors, axis) ==
    {s \in {[k \in 1..Len(vectors) |-> vectors[p[k]]] : p \in Orders(Len(vectors))} :
        \A i, j \in 1..Len(s) :
            i < j => ~(At(s[j].Components, axis) < At(s[i].Components, axis))}

\* Mutant of medianSplit: of an even number of points the lower of the two
\* middle ones is taken.
medianSplitLower(s) ==
    LET medianIndex == GoDiv(Len(s) - 1, 2)
    IN [medianPoint |-> At(s, medianIndex),
        left |-> SubSeq(s, 1, medianIndex),
        right |-> SubSeq(s, medianIndex + 2, Len(s))]

\* The median point of the sorted slice and the two sub-slices around it.
medianSplit(s) ==
    LET medianIndex == GoDiv(Len(s), 2)
    IN [medianPoint |-> At(s, medianIndex),
        left |-> SubSeq(s, 1, medianIndex),
        right |-> SubSeq(s, medianIndex + 2, Len(s))]

\* build: the trees it can return, one for every outcome of the sorts.
RECURSIVE build(_, _)
build(vectors, depth) ==
    IF Len(vectors) = 0
    THEN {nil}
    ELSE LET k == Len(vectors[1].Components)
             axis == depth % k
         IN UNION {LET m == medianSplit(s)
                   IN {node(m.medianPoint, l, r) :
                          l \in build(m.left, depth + 1), r \in build(m.right, depth + 1)}
                   : s \in sortSlice(vectors, axis)}

BuildKDTree(vectors) == {[root |-> r] : r \in build(vectors, 0)}

RECURSIVE sumSquares(_, _, _)
sumSquares(u, v, i) ==
    IF i = Len(u.Components)
    THEN 0
    ELSE LET diff == At(u.Components, i) - At(v.Components, i)
         IN diff * diff + sumSquares(u, v, i + 1)

squaredDistance(u, v) == sumSquares(u, v, 0)

\* squaredDistance panics (index out of range) when v has no component i for an
\* index i of u.
squaredDistancePanics(u, v) ==
    \E i \in 0..(Len(u.Components) - 1) : i >= Len(v.Components)

\* rangeQuery's test for descending into the left subtree.
searchLeft(n, center, radius, axis) ==
    n.l # nil /\ At(center.Components, axis) - radius <= At(n.v.Components, axis)

\* rangeQuery's test for descending into the right subtree.
searchRight(n, center, radius, axis) ==
    n.r # nil /\ At(center.Components, axis) + radius >= At(n.v.Components, axis)

RECURSIVE rangeQuery(_, _, _, _)
rangeQuery(np, center, radius, depth) ==
    IF np = nil
    THEN <<>>
    ELSE LET n == np[1]
             k == Len(n.v.Components)
             axis == depth % k
             here == IF squaredDistance(n.v, center) <= radius * radius THEN <<n.v>> ELSE <<>>
             left == IF searchLeft(n, center, radius, axis)
                     THEN rangeQuery(n.l, center, radius, depth + 1)
                     ELSE <<>>
             right == IF searchRight(n, center, radius, axis)
                      THEN rangeQuery(n.r, center, radius, depth + 1)
                      ELSE <<>>
         IN here \o left \o right

RangeQuery(t, center, radius) == rangeQuery(t.root, center, radius, 0)

\* Whether rangeQuery panics: an index out of range in squaredDistance or in
\* center.Components[axis], here or in a subtree it descends into.
RECURSIVE rangeQueryPanics(_, _, _, _)
rangeQueryPanics(np, center, radius, depth) ==
    IF np = nil
    THEN FALSE
    ELSE LET n == np[1]
             k == Len(n.v.Components)
             axis == depth % k
         IN \/ squaredDistancePanics(n.v, center)
            \/ (n.l # nil \/ n.r # nil) /\ axis >= Len(center.Components)
            \/ searchLeft(n, center, radius, axis)
                  /\ rangeQueryPanics(n.l, center, radius, depth + 1)
            \/ searchRight(n, center, radius, axis)
                  /\ rangeQueryPanics(n.r, center, radius, depth + 1)

RangeQueryPanics(t, center, radius) == rangeQueryPanics(t.root, center, radius, 0)

\* Mutant of searchOther: the other subtree is never searched.
searchOtherNever(n, target, axis, bestDist) == FALSE

\* Mutant of searchOther: the other subtree is pruned unless the hyperplane is
\* closer than the best point by a margin.
searchOtherMargin(n, target, axis, bestDist) ==
    LET d == At(n.v.Components, axis) - At(target.Components, axis)
    IN d * d + 1 < bestDist

\* nearest's test for searching the other subtree:
\* math.Abs(n.v[axis] - target[axis]) < math.Sqrt(bestDist), both sides non-negative.
searchOther(n, target, axis, bestDist) ==
    LET d == At(n.v.Components, axis) - At(target.Components, axis)
    IN d * d < bestDist

RECURSIVE nearest(_, _, _, _, _)
nearest(np, target, depth, best, bestDist) ==
    IF np = nil
    THEN [best |-> best, bestDist |-> bestDist]
    ELSE LET n == np[1]
             k == Len(target.Components)
             axis == depth % k
             dist == squaredDistance(n.v, target)
             here == IF dist < bestDist
                     THEN [best |-> np, bestDist |-> dist]
                     ELSE [best |-> best, bestDist |-> bestDist]
             goLeft == At(target.Components, axis) < At(n.v.Components, axis)
             next == IF goLeft THEN n.l ELSE n.r
             other == IF goLeft THEN n.r ELSE n.l
             first == nearest(next, target, depth + 1, here.best, here.bestDist)
         IN IF searchOther(n, target, axis, first.bestDist)
            THEN nearest(other, target, depth + 1, first.best, first.bestDist)
            ELSE first

\* Whether nearest panics: an index out of range in squaredDistance or in
\* n.v.Components[axis], here or in a subtree it searches.
RECURSIVE nearestPanics(_, _, _, _, _)
nearestPanics(np, target, depth, best, bestDist) ==
    IF np = nil
    THEN FALSE
    ELSE LET n == np[1]
             k == Len(target.Components)
             axis == depth % k
         IN \/ squaredDistancePanics(n.v, target)
            \/ axis >= Len(n.v.Components)
            \/ LET dist == squaredDistance(n.v, target)
                   here == IF dist < bestDist
                           THEN [best |-> np, bestDist |-> dist]
                           ELSE [best |-> best, bestDist |-> bestDist]
                   goLeft == At(target.Components, axis) < At(n.v.Components, axis)
                   next == IF goLeft THEN n.l ELSE n.r
                   other == IF goLeft THEN n.r ELSE n.l
               IN \/ nearestPanics(next, target, depth + 1, here.best, here.bestDist)
                  \/ LET first == nearest(next, target, depth + 1, here.best, here.bestDist)
                     IN /\ searchOther(n, target, axis, first.bestDist)
                        /\ nearestPanics(other, target, depth + 1, first.best, first.bestDist)

\* Mutant of FindNearest: the zero Vector is returned when no point was found.
FindNearestZeroVector(t, target) ==
    IF nearestPanics(t.root, target, 0, nil, MaxFloat64)
    THEN [panic |-> TRUE, v |-> Vector(0, <<>>), dist |-> 0]
    ELSE LET r == nearest(t.root, target, 0, nil, MaxFloat64)
         IN IF r.best = nil
            THEN [panic |-> FALSE, v |-> Vector(0, <<>>), dist |-> r.bestDist]
            ELSE [panic |-> FALSE, v |-> r.best[1].v, dist |-> r.bestDist]

\* FindNearest: nearest may panic, and best.v panics when best is nil (an empty
\* tree); a call that panics returns nothing.
FindNearest(t, target) ==
    IF nearestPanics(t.root, target, 0, nil, MaxFloat64)
    THEN [panic |-> TRUE, v |-> Vector(0, <<>>), dist |-> 0]
    ELSE LET r == nearest(t.root, target, 0, nil, MaxFloat64)
         IN IF r.best = nil
            THEN [panic |-> TRUE, v |-> Vector(0, <<>>), dist |-> 0]
            ELSE [panic |-> FALSE, v |-> r.best[1].v, dist |-> r.bestDist]

(***************************************************************************)
(* Values of the variables a specification does not use.                   *)
(***************************************************************************)
NoCall == [op |-> "none"]

NoResponse == [SearchSpace |-> EmptyGraph, Costs |-> EmptyCosts]

NoPath == [target |-> -1, visited |-> <<>>, coords |-> <<>>]

IdleEngine ==
    /\ criteria = Criteria(<<>>, <<>>)
    /\ search = NewDijkstra(Criteria(<<>>, <<>>))
    /\ currentID = 0
    /\ min = ZeroHNode
    /\ ei = 0
    /\ response = NoResponse
    /\ path = NoPath
    /\ inserted = 0
    /\ stale = FALSE

engineVars == <<criteria, search, currentID, min, ei, response, path, inserted, stale>>

\* No KDTree has been built.
IdleKD ==
    /\ points = <<>>
    /\ kdtree = [root |-> nil]

kdVars == <<points, kdtree>>

\* No Bitset is in use.
IdleBitset ==
    /\ bitset = NewBigInt
    /\ written = <<>>

bitVars == <<bitset, written>>

\* No pair of searches has been created.
IdleTwo ==
    /\ mem = <<>>
    /\ runs = <<>>

twoVars == <<mem, runs>>

(***************************************************************************)
(* SpecGraph: a caller builds a Graph with AddNode and RelateNodes.        *)
(***************************************************************************)
GraphWeights == 1..MaxGraphWeight

GraphDistances == {0, 1}

\* The ID field the caller put in the Node given to AddNode.
CallerIDs == 0..MaxGraphNodes

InitGraph ==
    /\ g = EmptyGraph
    /\ nops = 0
    /\ lastCall = NoCall
    /\ heap = Create
    /\ drained = <<>>
    /\ pc = "graph"
    /\ IdleEngine
    /\ IdleKD
    /\ IdleBitset
    /\ IdleTwo

AddNodeCall ==
    /\ pc = "graph"
    /\ Len(g.Nodes) < MaxGraphNodes
    /\ \E id \in CallerIDs :
         LET n == Node(id, 100 + Len(g.Nodes), 0)
             r == AddNode(g, n)
         IN /\ g' = r.graph
            /\ lastCall' = [op |-> "AddNode", n |-> n, id |-> r.id]
    /\ UNCHANGED <<kdVars, bitVars, twoVars, nops, heap, drained, pc, engineVars>>

RelateNodesCall ==
    /\ pc = "graph"
    /\ nops < MaxRelations
    /\ \E a \in 1..Len(g.Nodes), b \in 1..Len(g.Nodes), w \in GraphWeights,
          dir \in EdgeDirections, d \in GraphDistances :
         /\ g' = RelateNodes(g, g.Nodes[a], g.Nodes[b], w, dir, MetaData(d))
         /\ lastCall' = [op |-> "RelateNodes", a |-> g.Nodes[a].ID, b |-> g.Nodes[b].ID,
                         weight |-> w, dir |-> dir, metaData |-> MetaData(d)]
    /\ nops' = nops + 1
    /\ UNCHANGED <<kdVars, bitVars, twoVars, heap, drained, pc, engineVars>>

NextGraph == AddNodeCall \/ RelateNodesCall

SpecGraph == InitGraph /\ [][NextGraph]_vars

(***************************************************************************)
(* SpecHeap: a caller inserts into and deletes from a heap created empty,  *)
(* peeks at any time, and at some point empties it by Min and DeleteMin.   *)
(***************************************************************************)
HeapValues == {0, 1}

HeapCosts == 0..MaxHeapCost

InitHeap ==
    /\ g = EmptyGraph
    /\ nops = 0
    /\ lastCall = NoCall
    /\ heap = Create
    /\ drained = <<>>
    /\ pc = "heap"
    /\ IdleEngine
    /\ IdleKD
    /\ IdleBitset
    /\ IdleTwo

HeapInsert ==
    /\ pc = "heap"
    /\ nops < MaxHeapOps
    /\ \E v \in HeapValues, c \in HeapCosts :
         LET n == HNode(v, c, 0, 0, 0)
         IN /\ heap' = Insert(heap, n)
            /\ lastCall' = [op |-> "Insert", before |-> heap, node |-> n, err |-> NoError]
    /\ nops' = nops + 1
    /\ UNCHANGED <<kdVars, bitVars, twoVars, g, drained, pc, engineVars>>

HeapMin ==
    /\ pc = "heap"
    /\ lastCall' = [op |-> "Min", before |-> heap, node |-> Min(heap).node,
                    err |-> Min(heap).err]
    /\ UNCHANGED <<kdVars, bitVars, twoVars, g, nops, heap, drained, pc, engineVars>>

HeapDeleteMin ==
    /\ pc = "heap"
    /\ nops < MaxHeapOps
    /\ heap' = DeleteMin(heap).heap
    /\ lastCall' = [op |-> "DeleteMin", before |-> heap, node |-> ZeroHNode,
                    err |-> DeleteMin(heap).err]
    /\ nops' = nops + 1
    /\ UNCHANGED <<kdVars, bitVars, twoVars, g, drained, pc, engineVars>>

\* The caller starts emptying the heap.
HeapStartDrain ==
    /\ pc = "heap"
    /\ pc' = "drain"
    /\ lastCall' = NoCall
    /\ UNCHANGED <<kdVars, bitVars, twoVars, g, nops, heap, drained, engineVars>>

\* One round of the emptying loop: Min, then DeleteMin.
HeapDrain ==
    /\ pc = "drain"
    /\ ~IsEmpty(heap)
    /\ drained' = Append(drained, Min(heap).node.Cost)
    /\ heap' = DeleteMin(heap).heap
    /\ UNCHANGED <<kdVars, bitVars, twoVars, g, nops, lastCall, pc, engineVars>>

NextHeap == HeapInsert \/ HeapMin \/ HeapDeleteMin \/ HeapStartDrain \/ HeapDrain

SpecHeap == InitHeap /\ [][NextHeap]_vars

(***************************************************************************)
(* SpecKD: a caller builds a KDTree from vectors of one dimensionality and *)
(* queries it with RangeQuery and FindNearest.                             *)
(***************************************************************************)
Coords == 0..MaxCoord

Radii == (-1)..MaxRadius

ComponentLists(k) == [1..k -> Coords]

\* The slices a caller can give to BuildKDTree: vector i has ID i.
VectorLists ==
    UNION {UNION {{[i \in 1..n |-> Vector(i - 1, cs[i])] : cs \in [1..n -> ComponentLists(k)]}
                  : n \in 0..MaxPoints}
           : k \in 1..MaxDim}

\* The number of components of a query vector: that of the stored points or not.
QueryDims == 1..MaxDim

InitKD ==
    /\ g = EmptyGraph
    /\ nops = 0
    /\ lastCall = NoCall
    /\ heap = Create
    /\ drained = <<>>
    /\ pc = "kd"
    /\ IdleEngine
    /\ IdleBitset
    /\ IdleTwo
    /\ \E vectors \in VectorLists :
         /\ points = vectors
         /\ kdtree \in BuildKDTree(vectors)

RangeQueryCall ==
    /\ pc = "kd"
    /\ nops < MaxQueries
    /\ \E k \in QueryDims : \E cs \in ComponentLists(k), radius \in Radii :
         lastCall' = [op |-> "RangeQuery", center |-> Vector(0, cs), radius |-> radius,
                      panic |-> RangeQueryPanics(kdtree, Vector(0, cs), radius),
                      result |-> IF RangeQueryPanics(kdtree, Vector(0, cs), radius)
                                 THEN <<>>
                                 ELSE RangeQuery(kdtree, Vector(0, cs), radius)]
    /\ nops' = nops + 1
    /\ UNCHANGED <<kdVars, bitVars, twoVars, g, heap, drained, pc, engineVars>>

FindNearestCall ==
    /\ pc = "kd"
    /\ nops < MaxQueries
    /\ \E k \in QueryDims : \E cs \in ComponentLists(k) :
         lastCall' = [op |-> "FindNearest", target |-> Vector(0, cs),
                      result |-> FindNearest(kdtree, Vector(0, cs))]
    /\ nops' = nops + 1
    /\ UNCHANGED <<kdVars, bitVars, twoVars, g, heap, drained, pc, engineVars>>

NextKD == RangeQueryCall \/ FindNearestCall

SpecKD == InitKD /\ [][NextKD]_vars

(***************************************************************************)
(* SpecBitset: a caller sets and clears the bits of a Bitset made by        *)
(* NewBigInt, and reads it by Exists and Len.                              *)
(***************************************************************************)
BitIndexes == 0..MaxBitIndex

InitBitset ==
    /\ g = EmptyGraph
    /\ nops = 0
    /\ lastCall = NoCall
    /\ heap = Create
    /\ drained = <<>>
    /\ pc = "bitset"
    /\ IdleEngine
    /\ IdleKD
    /\ IdleTwo
    /\ bitset = NewBigInt
    /\ written = [i \in BitIndexes |-> FALSE]

SetCall ==
    /\ pc = "bitset"
    /\ \E i \in BitIndexes, value \in BOOLEAN :
         /\ bitset' = Set(bitset, i, value)
         /\ written' = [written EXCEPT ![i] = value]
         /\ lastCall' = [op |-> "Set", i |-> i, value |-> value, before |-> bitset]
    /\ UNCHANGED <<kdVars, twoVars, g, nops, heap, drained, pc, engineVars>>

ExistsCall ==
    /\ pc = "bitset"
    /\ \E i \in BitIndexes :
         lastCall' = [op |-> "Exists", i |-> i, result |-> Exists(bitset, i), before |-> bitset]
    /\ UNCHANGED <<kdVars, bitVars, twoVars, g, nops, heap, drained, pc, engineVars>>

LenCall ==
    /\ pc = "bitset"
    /\ lastCall' = [op |-> "Len", result |-> BitLen(bitset), before |-> bitset]
    /\ UNCHANGED <<kdVars, bitVars, twoVars, g, nops, heap, drained, pc, engineVars>>

NextBitset == SetCall \/ ExistsCall \/ LenCall

SpecBitset == InitBitset /\ [][NextBitset]_vars

(***************************************************************************)
(* Spec: NewDijkstra(criteria).Run(g) on a graph built by AddNode and      *)
(* RelateNodes, followed by PathCoord calls on the Response.  Run is       *)
(* followed statement by statement: the top of an iteration up to the      *)
(* target test, each Relax of the range loop, the DeleteMin.               *)
(***************************************************************************)
NodeIDs == 0..(NumNodes - 1)

Weights == 0..MaxWeight

\* The Location of input node id (opaque to the engine).
LocationOf(id) == 100 + id

\* The metadata distance of an input edge of weight w.
DistanceOf(w) == 2 * w + 1

\* The ids of the nodes of gr.
GraphIDs(gr) == 0..(Len(gr.Nodes) - 1)

\* A RelateNodes call of the builder: <<a, b, weight>>, made LeftToRight.
EdgeCalls == NodeIDs \X NodeIDs \X Weights

EdgeCallLists == UNION {[1..k -> EdgeCalls] : k \in 0..MaxEdges}

RECURSIVE addNodes(_, _)
addNodes(gr, n) ==
    IF n = 0 THEN gr ELSE AddNode(addNodes(gr, n - 1), Node(0, LocationOf(n - 1), 0)).graph

RECURSIVE relateAll(_, _, _)
relateAll(gr, calls, k) ==
    IF k > Len(calls)
    THEN gr
    ELSE relateAll(RelateNodes(gr, At(gr.Nodes, calls[k][1]), At(gr.Nodes, calls[k][2]),
                               calls[k][3], LeftToRight, MetaData(DistanceOf(calls[k][3]))),
                   calls, k + 1)

InputGraph(calls) == relateAll(addNodes(EmptyGraph, NumNodes), calls, 1)

SourceLists == UNION {[1..k -> NodeIDs] : k \in 1..MaxSources}

TargetLists == UNION {[1..k -> NodeIDs] : k \in 0..MaxTargets}

Init ==
    /\ \E calls \in EdgeCallLists : g = InputGraph(calls)
    /\ \E src \in SourceLists, tgt \in TargetLists : criteria = Criteria(src, tgt)
    /\ search = NewDijkstra(criteria)
    /\ nops = 0
    /\ lastCall = NoCall
    /\ heap = Create
    /\ drained = <<>>
    /\ pc = "ready"
    /\ currentID = 0
    /\ min = ZeroHNode
    /\ ei = 0
    /\ response = NoResponse
    /\ path = NoPath
    /\ inserted = Len(criteria.Source)
    /\ stale = FALSE
    /\ IdleKD
    /\ IdleBitset
    /\ IdleTwo

\* Run is entered: currentID := 0.
RunBegin ==
    /\ pc = "ready"
    /\ pc' = "loop"
    /\ currentID' = 0
    /\ UNCHANGED <<kdVars, bitVars, twoVars, g, nops, lastCall, heap, drained, criteria,
                   search, min, ei, response, path, inserted, stale>>

\* The loop condition fails: Run returns after the loop.
RunExhausted ==
    /\ pc = "loop"
    /\ isFinished(search)
    /\ response' = Response(search)
    /\ pc' = "done"
    /\ UNCHANGED <<kdVars, bitVars, twoVars, g, nops, lastCall, heap, drained, criteria,
                   search, currentID, min, ei, path, inserted, stale>>

\* Mutant of RunVisit: the node of an unvisited node is added to the input graph
\* as well as to the tree.
RunVisitOnInput ==
    /\ pc = "loop"
    /\ ~isFinished(search)
    /\ LET m == Min(search.pq).node
           added == IF ~wasVisited(search, m.Value)
                    THEN addPrevious(search)
                    ELSE [search |-> search, id |-> currentID]
           marked == [added.search EXCEPT !.visited = Set(@, m.Value, TRUE)]
       IN /\ min' = m
          /\ currentID' = added.id
          /\ stale' = wasVisited(search, m.Value)
          /\ search' = marked
          /\ g' = IF ~wasVisited(search, m.Value)
                  THEN AddNode(g, Node(0, 0, m.Value)).graph
                  ELSE g
          /\ IF reachTarget(marked, m.Value)
             THEN /\ response' = Response(marked)
                  /\ pc' = "done"
                  /\ ei' = ei
             ELSE /\ response' = response
                  /\ pc' = "relax"
                  /\ ei' = 0
    /\ UNCHANGED <<kdVars, bitVars, twoVars, nops, lastCall, heap, drained, criteria, path,
                   inserted>>

\* The top of an iteration: peek, add the tree node of an unvisited node, mark it
\* visited, and return if it is the target.
RunVisit ==
    /\ pc = "loop"
    /\ ~isFinished(search)
    /\ LET m == Min(search.pq).node
           added == IF ~wasVisited(search, m.Value)
                    THEN addPrevious(search)
                    ELSE [search |-> search, id |-> currentID]
           marked == [added.search EXCEPT !.visited = Set(@, m.Value, TRUE)]
       IN /\ min' = m
          /\ currentID' = added.id
          /\ stale' = wasVisited(search, m.Value)
          /\ search' = marked
          /\ IF reachTarget(marked, m.Value)
             THEN /\ response' = Response(marked)
                  /\ pc' = "done"
                  /\ ei' = ei
             ELSE /\ response' = response
                  /\ pc' = "relax"
                  /\ ei' = 0
    /\ UNCHANGED <<kdVars, bitVars, twoVars, g, nops, lastCall, heap, drained, criteria, path,
                   inserted>>

\* One round of the range over g.OutgoingEdges[min.Value].
RunRelax ==
    /\ pc = "relax"
    /\ ei < Len(At(g.OutgoingEdges, min.Value))
    /\ LET e == At(At(g.OutgoingEdges, min.Value), ei)
       IN search' = Relax(search, At(g.Nodes, e.ID), currentID, e.Weight, e.Metadata.Distance)
    /\ inserted' = inserted + (search'.pq.size - search.pq.size)
    /\ ei' = ei + 1
    /\ UNCHANGED <<kdVars, bitVars, twoVars, g, nops, lastCall, heap, drained, pc, criteria,
                   currentID, min, response, path, stale>>

\* The range is over: search.pq.DeleteMin().
RunDeleteMin ==
    /\ pc = "relax"
    /\ ei = Len(At(g.OutgoingEdges, min.Value))
    /\ search' = [search EXCEPT !.pq = DeleteMin(@).heap]
    /\ pc' = "loop"
    /\ UNCHANGED <<kdVars, bitVars, twoVars, g, nops, lastCall, heap, drained, criteria,
                   currentID, min, ei, response, path, inserted, stale>>

\* The caller reconstructs the path to tree node t of the Response.
PathCoordCall ==
    /\ pc = "done"
    /\ \E t \in 0..(Len(response.SearchSpace.Nodes) - 1) :
         path' = [target |-> t,
                  visited |-> pathWalk(response.SearchSpace, <<t>>, <<>>),
                  coords |-> PathCoord(response.SearchSpace, t, g)]
    /\ UNCHANGED <<kdVars, bitVars, twoVars, g, nops, lastCall, heap, drained, pc, criteria,
                   search, currentID, min, ei, response, inserted, stale>>

Next == RunBegin \/ RunExhausted \/ RunVisit \/ RunRelax \/ RunDeleteMin \/ PathCoordCall

Spec == Init /\ [][Next]_vars

\* A step of Run.
RunStep == RunBegin \/ RunExhausted \/ RunVisit \/ RunRelax \/ RunDeleteMin

\* Run is one sequential call: once made it keeps executing statements until it
\* returns.
FairSpec == Init /\ [][Next]_vars /\ WF_vars(RunStep)

(***************************************************************************)
(* SpecScenario: Run on the two graphs of the shortest-path scenarios, the *)
(* six-node graph of TestConditionalDijkstra_ShortestPath and the weighted *)
(* chain, from any one source to any one target or to none.                *)
(***************************************************************************)
\* The RelateNodes calls <<a, b, weight>> of the six-node graph (A..F = 0..5)
\* and of the chain 0-1-2-3, made Bidirectional with the zero MetaData.
SixNodeCalls == <<<<0, 1, 1>>, <<0, 4, 2>>, <<4, 5, 2>>, <<5, 3, 2>>, <<1, 2, 1>>, <<2, 3, 1>>>>

ChainCalls == <<<<0, 1, 1>>, <<1, 2, 2>>, <<2, 3, 3>>>>

RECURSIVE relateBoth(_, _, _)
relateBoth(gr, calls, k) ==
    IF k > Len(calls)
    THEN gr
    ELSE relateBoth(RelateNodes(gr, At(gr.Nodes, calls[k][1]), At(gr.Nodes, calls[k][2]),
                                calls[k][3], Bidirectional, MetaData(0)),
                    calls, k + 1)

SixNodeGraph == relateBoth(addNodes(EmptyGraph, 6), SixNodeCalls, 1)

ChainGraph == relateBoth(addNodes(EmptyGraph, 4), ChainCalls, 1)

InitScenario ==
    /\ g \in {SixNodeGraph, ChainGraph}
    /\ \E s \in GraphIDs(g) :
         \E tgt \in {<<>>} \cup {<<t>> : t \in GraphIDs(g)} : criteria = Criteria(<<s>>, tgt)
    /\ search = NewDijkstra(criteria)
    /\ nops = 0
    /\ lastCall = NoCall
    /\ heap = Create
    /\ drained = <<>>
    /\ pc = "ready"
    /\ currentID = 0
    /\ min = ZeroHNode
    /\ ei = 0
    /\ response = NoResponse
    /\ path = NoPath
    /\ inserted = Len(criteria.Source)
    /\ stale = FALSE
    /\ IdleKD
    /\ IdleBitset
    /\ IdleTwo

SpecScenario == InitScenario /\ [][Next]_vars

(***************************************************************************)
(* SpecTwo: two searches, each made by its own NewDijkstra call, run over  *)
(* one graph with the statements of the two Run calls interleaved.         *)
(***************************************************************************)
\* The Criteria of the first search, from node 0, and of the second, from any
\* node: each to one target or to none.
TwoTargets == {<<>>} \cup {<<t>> : t \in NodeIDs}

InitTwo ==
    /\ \E calls \in EdgeCallLists : g = InputGraph(calls)
    /\ \E t1 \in TwoTargets, s2 \in NodeIDs, t2 \in TwoTargets :
         LET first == NewDijkstraIn(<<>>, Criteria(<<0>>, t1))
             second == NewDijkstraIn(first.mem, Criteria(<<s2>>, t2))
         IN /\ mem = second.mem
            /\ runs = <<RunOf(Criteria(<<0>>, t1), first.search),
                        RunOf(Criteria(<<s2>>, t2), second.search)>>
    /\ nops = 0
    /\ lastCall = NoCall
    /\ heap = Create
    /\ drained = <<>>
    /\ pc = "two"
    /\ IdleEngine
    /\ IdleKD
    /\ IdleBitset

\* The call i executes its next statement.
TwoStep(i) ==
    /\ pc = "two"
    /\ runs[i].pc # "done"
    /\ runs' = [runs EXCEPT ![i] = runStep(mem, g, runs[i]).run]
    /\ mem' = runStep(mem, g, runs[i]).mem
    /\ UNCHANGED <<kdVars, bitVars, g, nops, lastCall, heap, drained, pc, engineVars>>

NextTwo == TwoStep(1) \/ TwoStep(2)

SpecTwo == InitTwo /\ [][NextTwo]_vars

(***************************************************************************)
(* SpecAgain: a caller makes one DijkstraSearch value by NewDijkstra and   *)
(* calls Run on it, and again once the call has returned.  Here search is  *)
(* the caller's value, its pointers held in mem, and runs are the calls    *)
(* made on it so far.                                                      *)
(***************************************************************************)
InitAgain ==
    /\ \E calls \in EdgeCallLists : g = InputGraph(calls)
    /\ \E src \in SourceLists, tgt \in TwoTargets : criteria = Criteria(src, tgt)
    /\ mem = NewDijkstraIn(<<>>, criteria).mem
    /\ search = NewDijkstraIn(<<>>, criteria).search
    /\ runs = <<>>
    /\ nops = 0
    /\ lastCall = NoCall
    /\ heap = Create
    /\ drained = <<>>
    /\ pc = "again"
    /\ currentID = 0
    /\ min = ZeroHNode
    /\ ei = 0
    /\ response = NoResponse
    /\ path = NoPath
    /\ inserted = 0
    /\ stale = FALSE
    /\ IdleKD
    /\ IdleBitset

\* search.Run(g) is called: Run receives a copy of the caller's value.
RunCall ==
    /\ pc = "again"
    /\ Len(runs) < MaxRuns
    /\ \A i \in 1..Len(runs) : runs[i].pc = "done"
    /\ runs' = Append(runs, RunOf(criteria, search))
    /\ UNCHANGED <<kdVars, bitVars, g, nops, lastCall, heap, drained, pc, engineVars, mem>>

\* The call under way executes its next statement.
RunAgainStep ==
    /\ pc = "again"
    /\ runs # <<>>
    /\ runs[Len(runs)].pc # "done"
    /\ LET after == runStep(mem, g, runs[Len(runs)])
       IN /\ runs' = [runs EXCEPT ![Len(runs)] = after.run]
          /\ mem' = after.mem
          /\ search' = callerAfter(search, after.run)
    /\ UNCHANGED <<kdVars, bitVars, g, nops, lastCall, heap, drained, pc, criteria, currentID,
                   min, ei, response, path, inserted, stale>>

NextAgain == RunCall \/ RunAgainStep

SpecAgain == InitAgain /\ [][NextAgain]_vars

(***************************************************************************)
(* Reference definitions for the claims: shortest-path costs by exhaustive *)
(* relaxation over the input graph, independent of the engine.             *)
(***************************************************************************)
Range(s) == {s[k] : k \in 1..Len(s)}

Minimum(S) == CHOOSE x \in S : \A y \in S : x <= y

\* The number of positions of s that hold x.
Count(s, x) == Cardinality({k \in 1..Len(s) : s[k] = x})

\* The edges in the two adjacency indexes of gr.
AllEdges(gr) ==
    UNION {Range(gr.OutgoingEdges[k]) \cup Range(gr.IncomingEdges[k]) : k \in 1..Len(gr.Nodes)}

\* The outgoing edges of the nodes u, u + 1, ... of gr, in one sequence.
RECURSIVE AllOutgoing(_, _)
AllOutgoing(gr, u) ==
    IF u >= Len(gr.Nodes) THEN <<>> ELSE At(gr.OutgoingEdges, u) \o AllOutgoing(gr, u + 1)

\* The weights of the edges u -> v of gr.
EdgeWeights(gr, u, v) == {e.Weight : e \in {x \in Range(At(gr.OutgoingEdges, u)) : x.ID = v}}

\* d maps the nodes reached by paths of at most n edges to the least cost of such
\* a path: the costs of the paths of at most n + 1 edges that end in v.
candidates(gr, d, v) ==
    (IF v \in DOMAIN d THEN {d[v]} ELSE {})
    \cup UNION {{d[u] + w : w \in EdgeWeights(gr, u, v)} : u \in DOMAIN d}

RECURSIVE costsAfter(_, _, _)
costsAfter(gr, d, k) ==
    IF k = 0
    THEN d
    ELSE costsAfter(gr,
                    [v \in {x \in GraphIDs(gr) : candidates(gr, d, x) # {}} |->
                       Minimum(candidates(gr, d, v))],
                    k - 1)

\* The true shortest-path cost from the set srcs, for every node reachable from it.
TrueCosts(gr, srcs) == costsAfter(gr, [s \in srcs |-> 0], Len(gr.Nodes))

SourceSet == Range(criteria.Source)

Returned == pc = "done"

\* Run returned with the target, if any, never reached.
Exhausted == Returned /\ ~(search.target >= 0 /\ Exists(search.visited, search.target))

TreeRanks(sp) == {sp.Nodes[k].Rank : k \in 1..Len(sp.Nodes)}

(***************************************************************************)
(* Claims about the engine, checked under Spec.                            *)
(***************************************************************************)

\* C1: when Run has returned and the target is reachable from a source,
\* GetCost(target) on the returned cost map gives no error and the true
\* shortest-path cost of the target.
C1_TargetCostIsShortest ==
    (Returned /\ criteria.Targets # <<>>
              /\ criteria.Targets[1] \in DOMAIN TrueCosts(g, SourceSet))
    => /\ GetCost(response.Costs, criteria.Targets[1]).err = NoError
       /\ GetCost(response.Costs, criteria.Targets[1]).cost
            = TrueCosts(g, SourceSet)[criteria.Targets[1]]

\* C1 witness: Run returned on a target that is no source and whose shortest
\* path costs 3, which within the bounds takes two edges (weights 1 and 2).
C1_Witness ==
    /\ Returned
    /\ criteria.Targets # <<>>
    /\ criteria.Targets[1] \notin SourceSet
    /\ criteria.Targets[1] \in DOMAIN TrueCosts(g, SourceSet)
    /\ TrueCosts(g, SourceSet)[criteria.Targets[1]] = 3
    /\ response.Costs[criteria.Targets[1]] = 3

\* C2: when Run stopped on an empty queue without reaching a target, the keys of
\* the cost map are exactly the nodes reachable from a source, each of them has
\* a tree node, and each value is the node's true shortest-path cost.
C2_ExhaustedCostsAreShortest ==
    Exhausted
    => /\ IsEmpty(search.pq)
       /\ DOMAIN response.Costs = DOMAIN TrueCosts(g, SourceSet)
       /\ DOMAIN response.Costs = TreeRanks(response.SearchSpace)
       /\ \A v \in DOMAIN response.Costs : response.Costs[v] = TrueCosts(g, SourceSet)[v]

\* C2 witness: a run to exhaustion without a target that reached every node of
\* the graph, one of them at cost 3.
C2_Witness ==
    /\ Exhausted
    /\ criteria.Targets = <<>>
    /\ DOMAIN response.Costs = NodeIDs
    /\ \E v \in NodeIDs : response.Costs[v] = 3

\* The shortest-path cost of v from the single source s, where v is reachable from s.
CostsFromEach(v) ==
    {TrueCosts(g, {s})[v] : s \in {x \in SourceSet : v \in DOMAIN TrueCosts(g, {x})}}

\* C3: with several sources and the queue run to exhaustion, every source has
\* cost 0 and every other reached node has the minimum over the sources of its
\* shortest-path cost from that source.
C3_MultiSourceMinimum ==
    (Exhausted /\ Len(criteria.Source) >= 2)
    => /\ \A s \in SourceSet : s \in DOMAIN response.Costs /\ response.Costs[s] = 0
       /\ \A v \in DOMAIN response.Costs \ SourceSet :
            /\ CostsFromEach(v) # {}
            /\ response.Costs[v] = Minimum(CostsFromEach(v))

\* C3 witness: two distinct sources, and a node reachable from both at different
\* costs, which got the smaller one, from the source listed second.
C3_Witness ==
    /\ Exhausted
    /\ Len(criteria.Source) = 2
    /\ criteria.Source[1] # criteria.Source[2]
    /\ \E v \in DOMAIN response.Costs \ SourceSet :
         /\ Cardinality(CostsFromEach(v)) = 2
         /\ v \in DOMAIN TrueCosts(g, {criteria.Source[2]})
         /\ response.Costs[v] = TrueCosts(g, {criteria.Source[2]})[v]
         /\ response.Costs[v] > 0

\* C4: Relax and DeleteMin never meet an empty queue; when the target is not
\* reachable from any source, Run returns with the queue empty and the target
\* absent from the cost map, and GetCost(target) is (INFINITE, "path not found");
\* GetCost gives (value, nil) exactly for the ids present in the map.
C4_UnreachableTarget ==
    /\ pc = "relax" => ~IsEmpty(search.pq)
    /\ (Returned /\ criteria.Targets # <<>>
                 /\ criteria.Targets[1] \notin DOMAIN TrueCosts(g, SourceSet))
       => /\ IsEmpty(search.pq)
          /\ criteria.Targets[1] \notin DOMAIN response.Costs
          /\ GetCost(response.Costs, criteria.Targets[1])
               = [cost |-> INFINITE, err |-> ErrPathNotFound]
    /\ Returned
       => \A id \in NodeIDs :
            /\ GetCost(response.Costs, id).err = NoError <=> id \in DOMAIN response.Costs
            /\ id \in DOMAIN response.Costs
               => GetCost(response.Costs, id).cost = response.Costs[id]
            /\ id \notin DOMAIN response.Costs
               => GetCost(response.Costs, id).err = ErrPathNotFound

\* C4 witness: Run returned with two nodes reached and the target, which has an
\* outgoing edge into the reached part, not among them.
C4_Witness ==
    /\ Returned
    /\ criteria.Targets # <<>>
    /\ criteria.Targets[1] \notin DOMAIN response.Costs
    /\ Cardinality(DOMAIN response.Costs) = 2
    /\ At(g.OutgoingEdges, criteria.Targets[1]) # <<>>

\* The sums of the weights of the edge sequences of gr that follow the node
\* sequence ns from position k on (empty when an edge is missing).
RECURSIVE pathSums(_, _, _)
pathSums(gr, ns, k) ==
    IF k >= Len(ns)
    THEN {0}
    ELSE {w + rest : w \in EdgeWeights(gr, ns[k], ns[k + 1]), rest \in pathSums(gr, ns, k + 1)}

Reverse(s) == [k \in 1..Len(s) |-> s[Len(s) + 1 - k]]

\* The ranks of the tree nodes the last PathCoord call visited, in visiting order.
PathRanks == [k \in 1..Len(path.visited) |-> At(response.SearchSpace.Nodes, path.visited[k]).Rank]

\* C5: the tree nodes PathCoord(t, g) visits form one chain, t first, each next
\* one the only predecessor of the one before; their ranks read in reverse are
\* a path of the input graph from a source to rank(t), along existing edges,
\* of total weight Costs[rank(t)].  (Stated for any number of sources.)
C5_PathCoordIsGraphPath ==
    path.target >= 0
    => /\ path.visited[1] = path.target
       /\ \A k \in 1..Len(path.visited) :
            LET incoming == At(response.SearchSpace.IncomingEdges, path.visited[k])
            IN IF k < Len(path.visited)
               THEN Len(incoming) = 1 /\ incoming[1].ID = path.visited[k + 1]
               ELSE incoming = <<>>
       /\ path.coords = [k \in 1..Len(PathRanks) |-> LocationOf(PathRanks[k])]
       /\ Reverse(PathRanks)[1] \in SourceSet
       /\ response.Costs[PathRanks[1]] \in pathSums(g, Reverse(PathRanks), 1)

\* C5 restricted to a single source id: the chain ends at that source.
C5_SingleSourcePath ==
    Cardinality(SourceSet) = 1 => C5_PathCoordIsGraphPath

\* A PathCoord call after a single-source run whose chain has three tree nodes.
C5_SingleSourceWitness ==
    /\ path.target >= 0
    /\ Cardinality(SourceSet) = 1
    /\ Len(path.visited) = 3

\* The entry at the root of the queue when an iteration of Run begins.
AtRoot == Min(search.pq).node

IterationBegins == pc = "loop" /\ ~isFinished(search)

VisitedIDs == {v \in NodeIDs : Exists(search.visited, v)}

\* The tree has one node per visited node: tree node i has ID i, the ranks are
\* the visited ids, each once.
OneTreeNodePerVisited ==
    LET t == search.previous
    IN /\ Len(t.Nodes) = Cardinality(VisitedIDs)
       /\ TreeRanks(t) = VisitedIDs
       /\ \A i \in GraphIDs(t) : At(t.Nodes, i).ID = i
       /\ \A i, j \in GraphIDs(t) : At(t.Nodes, i).Rank = At(t.Nodes, j).Rank => i = j

\* An iteration that finds an unvisited node at the root of the queue appends one
\* tree node whose Rank is that node; one that finds a visited node (a stale
\* entry) leaves the tree, nodes and edges, as it is.
TreeGrowsByFinalized ==
    IterationBegins
    => IF wasVisited(search, AtRoot.Value)
       THEN search'.previous = search.previous
       ELSE search'.previous.Nodes =
                Append(search.previous.Nodes,
                       Node(Len(search.previous.Nodes), 0, AtRoot.Value))

\* C15: in every state of a run the tree has exactly one node per visited node,
\* tree node i has ID i and the original id of the i-th finalized node as Rank,
\* ranks are pairwise distinct, and a stale queue entry adds no tree node and no
\* tree edge.
C15_OneTreeNodePerVisited == []OneTreeNodePerVisited /\ [][TreeGrowsByFinalized]_vars

\* Every node has been finalized and the iteration under way found a stale entry
\* (its cost is above the cost of its node).
C15_Witness ==
    /\ pc = "relax"
    /\ Len(search.previous.Nodes) = NumNodes
    /\ min.Cost > MapGet(search.costs, min.Value)

\* C16: in every state of a run tree node 0 has no incoming tree edge, every
\* other tree node has exactly one, and the tree's OutgoingEdges and
\* IncomingEdges mirror each other (a -> b is in OutgoingEdges[a] as often as it
\* is in IncomingEdges[b], with the same weight and metadata).
C16_OneIncomingTreeEdge ==
    LET t == search.previous
    IN /\ Len(t.OutgoingEdges) = Len(t.Nodes)
       /\ Len(t.IncomingEdges) = Len(t.Nodes)
       /\ \A i \in GraphIDs(t) : Len(At(t.IncomingEdges, i)) = IF i = 0 THEN 0 ELSE 1
       /\ \A a \in GraphIDs(t), b \in GraphIDs(t), e \in AllEdges(t) :
              Count(At(t.OutgoingEdges, a), Edge(b, e.Weight, e.Metadata))
                = Count(At(t.IncomingEdges, b), Edge(a, e.Weight, e.Metadata))

\* Run returned a tree of all the nodes that is a chain: tree node 1 has its one
\* incoming edge from tree node 0 and an outgoing edge to the last tree node.
C16_Witness ==
    /\ Returned
    /\ Len(response.SearchSpace.Nodes) = NumNodes
    /\ Len(At(response.SearchSpace.IncomingEdges, 1)) = 1
    /\ At(At(response.SearchSpace.IncomingEdges, 1), 0).ID = 0
    /\ Len(At(response.SearchSpace.OutgoingEdges, 1)) = 1
    /\ At(At(response.SearchSpace.OutgoingEdges, 1), 0).ID = NumNodes - 1

\* The original id of tree node i, and its value in the cost map.
RankOf(i) == At(search.previous.Nodes, i).Rank

CostOfTreeNode(i) == MapGet(search.costs, RankOf(i))

\* The edges of the input graph from node u to node v.
GraphEdges(u, v) == {e \in Range(At(g.OutgoingEdges, u)) : e.ID = v}

\* The tree edges leaving tree node p.
TreeEdgesFrom(p) == Range(At(search.previous.OutgoingEdges, p))

VisitedCostsAreShortest ==
    LET shortest == TrueCosts(g, SourceSet)
    IN \A v \in VisitedIDs :
          v \in DOMAIN search.costs /\ v \in DOMAIN shortest /\ search.costs[v] = shortest[v]

\* The iteration that marks a node visited finds its cost-map value equal to the
\* cost of the entry at the root, and no step changes the value of a visited node.
VisitedCostsAreKept ==
    /\ (IterationBegins /\ ~wasVisited(search, AtRoot.Value))
       => /\ MapGet(search.costs, AtRoot.Value) = AtRoot.Cost
          /\ MapGet(search'.costs, AtRoot.Value) = AtRoot.Cost
    /\ \A v \in VisitedIDs : MapGet(search'.costs, v) = MapGet(search.costs, v)

\* C19: with non-negative weights, when a node is marked visited its cost-map
\* value is its shortest-path cost and the cost of the queue entry that finalized
\* it, and no later step of the run changes that value.
C19_FinalAtVisit == []VisitedCostsAreShortest /\ [][VisitedCostsAreKept]_vars

\* Run stopped on an empty queue after calling Relax for an edge that leads to a
\* node already visited at a positive cost (from that node itself or from one
\* finalized later).
C19_Witness ==
    /\ Returned
    /\ Exhausted
    /\ \E i, j \in GraphIDs(search.previous) :
          /\ i <= j
          /\ CostOfTreeNode(i) > 0
          /\ GraphEdges(RankOf(j), RankOf(i)) # {}

\* The costs of the tree nodes, in the order of finalization, never decrease.
FinalizedInCostOrder ==
    \A i, j \in GraphIDs(search.previous) :
        i < j => CostOfTreeNode(i) <= CostOfTreeNode(j)

\* The entry an iteration peeks costs no less than the entry the iteration before
\* it peeked (min holds that entry, and the zero entry before the first peek).
PeekedCostsNeverDecrease == IterationBegins => AtRoot.Cost >= min.Cost

\* C20: with non-negative weights nodes are finalized in non-decreasing order of
\* cost (for tree nodes i < j, Costs[rank(i)] <= Costs[rank(j)]), and the costs
\* of the entries Run peeks one after the other never decrease.
C20_NonDecreasingFinalization ==
    []FinalizedInCostOrder /\ [][PeekedCostsNeverDecrease]_vars

\* Run stopped on an empty queue with all nodes in the tree at three different
\* costs.
C20_Witness ==
    /\ Returned
    /\ Exhausted
    /\ Len(search.previous.Nodes) = NumNodes
    /\ \A i, j \in GraphIDs(search.previous) : i < j => CostOfTreeNode(i) < CostOfTreeNode(j)

\* The number of edges of the input graph.
NumEdges == Len(AllOutgoing(g, 0))

\* Run has returned, at the target or on an empty queue.
Terminated ==
    /\ Returned
    /\ (search.target >= 0 /\ Exists(search.visited, search.target)) \/ IsEmpty(search.pq)

\* The Insert calls made on the queue, NewDijkstra's included, are at most one
\* for every source listed and one for every edge.
InsertionsBounded == inserted <= Len(criteria.Source) + NumEdges

\* C21: on every graph with non-negative weights (zero weights, cycles,
\* self-loops and parallel edges included) and for every choice of sources and
\* target, Run eventually returns, at the target or on an empty queue, and the
\* queue insertions never exceed the number of sources plus the number of edges.
C21_Terminates == <>Terminated /\ []InsertionsBounded

\* Run returned on an empty queue after one insertion for every source and every
\* edge, on a graph of two edges one of which has weight 0.
C21_Witness ==
    /\ Returned
    /\ IsEmpty(search.pq)
    /\ NumEdges = MaxEdges
    /\ inserted = Len(criteria.Source) + NumEdges
    /\ \E u \in NodeIDs : \E e \in Range(At(g.OutgoingEdges, u)) : e.Weight = 0

\* C22: no step of Run changes the input graph (its Nodes, OutgoingEdges and
\* IncomingEdges are after the step what they were before it), the Criteria, the
\* sources bitset or the target: of the engine only the queue, the visited
\* bitset, the cost map and the tree change.
C22_InputGraphUnchanged ==
    [][/\ g' = g
       /\ criteria' = criteria
       /\ search'.sources = search.sources
       /\ search'.target = search.target]_vars

\* Run returned a tree of all the nodes with two tree edges, built over an input
\* graph of two edges.
C22_Witness ==
    /\ Returned
    /\ Len(response.SearchSpace.Nodes) = NumNodes
    /\ Len(AllOutgoing(response.SearchSpace, 0)) = 2
    /\ Len(AllOutgoing(g, 0)) = 2
    /\ Len(g.Nodes) = NumNodes

\* C25: right after NewDijkstra(criteria) the queue holds one entry
\* {Value: s, Cost: 0, Depth: 0, Previous: 0} for every element s of
\* criteria.Source, as often as s is listed, and nothing else; the cost map maps
\* exactly the source ids, to 0; the sources bitset marks exactly the source ids;
\* the visited bitset and the tree are empty; the target is Targets[0], or -1
\* when Targets is empty.
C25_InitialEngineState ==
    pc = "ready"
    => /\ search.pq.size = Len(criteria.Source)
       /\ Len(search.pq.items) = Len(criteria.Source)
       /\ \A s \in NodeIDs :
            Count(search.pq.items, HNode(s, 0, 0, 0, 0)) = Count(criteria.Source, s)
       /\ DOMAIN search.costs = SourceSet
       /\ \A s \in SourceSet : search.costs[s] = 0
       /\ \A v \in NodeIDs : Exists(search.sources, v) <=> v \in SourceSet
       /\ \A v \in NodeIDs : ~Exists(search.visited, v)
       /\ BitLen(search.visited) = 0
       /\ search.previous = EmptyGraph
       /\ search.target = IF criteria.Targets = <<>> THEN -1 ELSE criteria.Targets[1]

\* NewDijkstra returned for a Criteria that lists one source id twice and no
\* target.
C25_Witness ==
    /\ pc = "ready"
    /\ Len(criteria.Source) = 2
    /\ criteria.Source[1] = criteria.Source[2]
    /\ criteria.Targets = <<>>
    /\ search.pq.size = 2

\* The tree id addPrevious gives to the node finalized next.
NewTreeID == Len(search.previous.Nodes)

\* The iteration that begins finalizes a node through an entry whose Previous
\* differs from the new tree id.
FinalizesLinked ==
    IterationBegins /\ ~wasVisited(search, AtRoot.Value) /\ AtRoot.Previous # NewTreeID

\* The step adds the tree edge from the entry's Previous to the new tree id, with
\* the entry's Cost as weight and its Dist as metadata distance; the Cost is the
\* node's value in the cost map; Previous is the tree id of a node with a graph
\* edge to the finalized node whose relaxation gives the entry's Cost and Dist.
LinkedAsCreated ==
    LET e == AtRoot
        pr == e.Previous
        id == NewTreeID
        edge == Edge(id, e.Cost, MetaData(e.Dist))
    IN /\ pr \in GraphIDs(search.previous)
       /\ At(search'.previous.OutgoingEdges, pr)
            = Append(At(search.previous.OutgoingEdges, pr), edge)
       /\ At(search'.previous.IncomingEdges, id) = <<Edge(pr, e.Cost, MetaData(e.Dist))>>
       /\ e.Cost = MapGet(search'.costs, e.Value)
       /\ \E ge \in GraphEdges(RankOf(pr), e.Value) :
              /\ e.Cost = CostOfTreeNode(pr) + ge.Weight
              /\ e.Dist = CostOfTreeNode(pr) + ge.Metadata.Distance

\* C29: when a node is finalized through an entry e whose Previous differs from
\* the new tree id, the tree edge added goes from e.Previous to the new tree id
\* with weight e.Cost, the node's cost, and distance e.Dist, which is the cost of
\* the predecessor plus the distance of the graph edge used, e.Previous being the
\* tree id of the node whose relaxation created e.
C29_TreeEdgeFromEntry == [][FinalizesLinked => LinkedAsCreated]_vars

\* The same for the runs from a single source id.
C29_SingleSourceEdge ==
    [][(Cardinality(SourceSet) = 1 /\ FinalizesLinked) => LinkedAsCreated]_vars

\* Between the peek of an iteration and its DeleteMin the queue is not empty and
\* its root is the entry that was peeked.
RootIsPeeked == pc = "relax" => (~IsEmpty(search.pq) /\ AtRoot = min)

\* A Relax call of the iteration leaves the entries of the queue in it, adds at
\* most one, of a cost not below the root's, and leaves the root at the root.
RelaxKeepsRoot ==
    (pc = "relax" /\ pc' = "relax")
    => /\ Min(search'.pq).node = Min(search.pq).node
       /\ search'.pq.size \in {search.pq.size, search.pq.size + 1}
       /\ \A x \in Range(search.pq.items) :
            Count(search'.pq.items, x) >= Count(search.pq.items, x)
       /\ \A x \in Range(search'.pq.items) : x.Cost >= min.Cost

\* The DeleteMin of the iteration removes one entry, equal to the peeked one, and
\* no other.
DeleteMinRemovesPeeked ==
    (pc = "relax" /\ pc' = "loop")
    => /\ search'.pq.size = search.pq.size - 1
       /\ \A x \in Range(search.pq.items) :
            Count(search'.pq.items, x)
              = Count(search.pq.items, x) - (IF x = min THEN 1 ELSE 0)

\* C30: with non-negative weights the root of the queue is, from the peek of an
\* iteration to its DeleteMin, the entry that was peeked: an entry Relax inserts
\* costs no less than the root and is moved up past strictly costlier parents
\* only, so every Relax call peeks the same entry again and DeleteMin removes
\* exactly that entry.
C30_RootKeptThroughIteration ==
    []RootIsPeeked /\ [][RelaxKeepsRoot /\ DeleteMinRemovesPeeked]_vars

\* A Relax call of the iteration under way inserted an entry for another node
\* at the cost of the root (through an edge of weight 0), and the peeked entry
\* is still the root.
C30_Witness ==
    /\ pc = "relax"
    /\ ei >= 1
    /\ search.pq.size >= 2
    /\ AtRoot = min
    /\ \E k \in 2..search.pq.size :
          /\ search.pq.items[k].Cost = min.Cost
          /\ search.pq.items[k].Depth = min.Depth + 1
          /\ search.pq.items[k].Previous = currentID
          /\ search.pq.items[k].Value # min.Value

\* The entries of the queue for node v.
EntriesOf(v) == {x \in Range(search.pq.items) : x.Value = v}

\* C31: at the top of every iteration of Run every node that has a value in the
\* cost map and is not yet visited has a queue entry whose cost is that value,
\* every queue entry costs no less than its node's value in the cost map, and no
\* queue entry is for a node without a value in the cost map.
C31_QueueCoversCosts ==
    pc = "loop"
    => /\ \A v \in DOMAIN search.costs :
            ~wasVisited(search, v) => \E x \in EntriesOf(v) : x.Cost = search.costs[v]
       /\ \A x \in Range(search.pq.items) :
            /\ x.Value \in DOMAIN search.costs
            /\ x.Cost >= search.costs[x.Value]

\* An iteration begins with two entries in the queue for one unvisited node: one
\* at the node's value in the cost map and an older one above it.
C31_Witness ==
    /\ pc = "loop"
    /\ \E v \in DOMAIN search.costs :
          /\ ~wasVisited(search, v)
          /\ \E x, y \in EntriesOf(v) : x.Cost = search.costs[v] /\ y.Cost > search.costs[v]

\* Every tree edge to a node that is no source follows an edge of the input
\* graph whose weight is the difference of the costs of its two nodes.
TreeEdgeIsGraphEdge ==
    \A p \in GraphIDs(search.previous) : \A e \in TreeEdgesFrom(p) :
        RankOf(e.ID) \notin SourceSet
        => \E ge \in GraphEdges(RankOf(p), RankOf(e.ID)) :
              CostOfTreeNode(e.ID) = CostOfTreeNode(p) + ge.Weight

\* The iteration of a stale entry keeps the currentID of the iteration before
\* it, and its Relax calls leave the queue and the cost map as they are.
StaleNeverInserts ==
    /\ (IterationBegins /\ wasVisited(search, AtRoot.Value))
       => (stale' /\ currentID' = currentID /\ search'.pq = search.pq)
    /\ (pc = "relax" /\ stale /\ pc' = "relax")
       => (search'.pq = search.pq /\ search'.costs = search.costs /\ inserted' = inserted)

\* C32: for every tree edge from tree node p to tree node c whose rank is no
\* source id, the input graph has an edge rank(p) -> rank(c) of a weight w with
\* Costs[rank(c)] = Costs[rank(p)] + w; the iteration of a stale queue entry
\* (node already visited, currentID left over) never inserts a queue entry.
C32_TreeEdgesFollowGraph == []TreeEdgeIsGraphEdge /\ [][StaleNeverInserts]_vars

\* The iteration of a stale entry has relaxed an edge to a node that is no source
\* and not yet visited: the node keeps the cost the edge gave it in the earlier
\* iteration, and the one queue entry it got then.
C32_Witness ==
    /\ pc = "relax"
    /\ stale
    /\ ei >= 1
    /\ LET e == At(At(g.OutgoingEdges, min.Value), ei - 1)
       IN /\ ~wasVisited(search, e.ID)
          /\ e.ID \notin SourceSet
          /\ search.costs[e.ID] = search.costs[min.Value] + e.Weight
          /\ Cardinality(EntriesOf(e.ID)) = 1
          /\ Count(search.pq.items, CHOOSE x \in EntriesOf(e.ID) : TRUE) = 1

\* The tree nodes whose rank is a source id.
SourceTreeNodes == {i \in GraphIDs(search.previous) : RankOf(i) \in SourceSet}

\* C33: every source node is a root of the shortest-path tree: for any source
\* list, of one or of several distinct sources, a tree node whose rank is a
\* source id has no incoming tree edge, whatever tree id it receives.
C33_SourcesAreRoots ==
    \A i \in SourceTreeNodes : At(search.previous.IncomingEdges, i) = <<>>

\* The same for the searches from one source id, listed once or twice.
C33_SingleSourceRoot ==
    Cardinality(SourceSet) = 1 => C33_SourcesAreRoots

\* With several sources the first one finalized is a root, and every other one
\* has one incoming tree edge, from tree node 0.
C33_LaterSourcesHangFromFirst ==
    \A i \in SourceTreeNodes :
        At(search.previous.IncomingEdges, i)
          = IF i = 0 THEN <<>> ELSE <<Edge(0, 0, MetaData(0))>>

\* Every tree edge, in either adjacency index, goes from a tree id to a strictly
\* larger one.
TreeEdgesAscend ==
    \A p \in GraphIDs(search.previous) :
        /\ \A e \in TreeEdgesFrom(p) : p < e.ID /\ e.ID \in GraphIDs(search.previous)
        /\ \A e \in Range(At(search.previous.IncomingEdges, p)) : e.ID < p /\ e.ID >= 0

\* A PathCoord call on the returned tree dequeued its target first, then tree
\* ids that strictly decrease: no tree node twice, and no more of them than the
\* tree has nodes; it returned one coordinate pair for each.
PathCoordWalkBounded ==
    path # NoPath
    => /\ path.visited # <<>>
       /\ path.visited[1] = path.target
       /\ Len(path.visited) <= Len(response.SearchSpace.Nodes)
       /\ \A k \in 1..(Len(path.visited) - 1) : path.visited[k + 1] < path.visited[k]
       /\ \A k \in 1..Len(path.visited) : Count(path.visited, path.visited[k]) = 1
       /\ Len(path.coords) = Len(path.visited)

\* C37: every tree edge goes from a smaller tree id to a strictly larger one, so
\* the tree is acyclic and PathCoord(t, g) terminates for every tree id t of a
\* tree built by Run, dequeuing each tree node at most once and at most
\* len(tree.Nodes) nodes in all.
C37_TreeAcyclic == TreeEdgesAscend /\ PathCoordWalkBounded

\* PathCoord was called for the last tree node of a returned tree of all the
\* nodes and dequeued every tree node, in descending order of tree id.
C37_Witness ==
    /\ Returned
    /\ Len(response.SearchSpace.Nodes) = NumNodes
    /\ path.target = NumNodes - 1
    /\ path.visited = [k \in 1..NumNodes |-> NumNodes - k]

(***************************************************************************)
(* Claims about the scenarios, checked under SpecScenario.                 *)
(***************************************************************************)
\* C28: on the six-node graph a search with Source [0] and Targets [5] returns
\* cost 4 for node 5 (with no error), and on the chain a search with Source [0]
\* and Targets [3] returns cost 6 for node 3.
C28_ScenarioCosts ==
    Returned
    => /\ (g = SixNodeGraph /\ criteria = Criteria(<<0>>, <<5>>))
          => GetCost(response.Costs, 5) = [cost |-> 4, err |-> NoError]
       /\ (g = ChainGraph /\ criteria = Criteria(<<0>>, <<3>>))
          => GetCost(response.Costs, 3) = [cost |-> 6, err |-> NoError]

\* The search from A to F on the six-node graph returned at F, the last of the
\* six nodes it finalized (D, at cost 3 through B and C, before it).
C28_Witness ==
    /\ Returned
    /\ g = SixNodeGraph
    /\ criteria = Criteria(<<0>>, <<5>>)
    /\ response.Costs[5] = 4
    /\ response.Costs[3] = 3
    /\ Len(response.SearchSpace.Nodes) = 6
    /\ At(response.SearchSpace.Nodes, 5).Rank = 5

(***************************************************************************)
(* Claims about two searches, checked under SpecTwo.                       *)
(***************************************************************************)
\* The objects the search of call i points to.
Owned(i) ==
    {runs[i].search.pq, runs[i].search.visited, runs[i].search.costs, runs[i].search.sources}

\* The two searches point to eight different objects.
PointersDisjoint ==
    /\ Cardinality(Owned(1)) = 4
    /\ Cardinality(Owned(2)) = 4
    /\ Owned(1) \cap Owned(2) = {}

\* What the call of Criteria c returns when it runs alone on the graph.
AloneResponse(c) ==
    LET made == NewDijkstraIn(<<>>, c)
        alone == runAlone(made.mem, g, RunOf(c, made.search))
    IN ResponseIn(alone.mem, alone.run)

\* A call that has returned gave the tree and the cost map it gives when it runs
\* alone, and the map still holds these costs.
ReturnsAsAlone ==
    \A i \in 1..2 :
        runs[i].pc = "done" => ResponseIn(mem, runs[i]) = AloneResponse(runs[i].criteria)

\* A statement of one call changes the objects of that call's search only, and
\* nothing of the other call.
StepTouchesOwn ==
    \A i \in 1..2 :
        runs'[i] # runs[i]
        => /\ runs'[3 - i] = runs[3 - i]
           /\ Len(mem') = Len(mem)
           /\ \A a \in 0..(Len(mem) - 1) : a \notin Owned(i) => At(mem', a) = At(mem, a)

\* C23: two searches, each made by its own NewDijkstra call, whose Run
\* statements are interleaved in any order over one graph, each return the tree
\* and the cost map they return when run alone; the queue, visited bitset, cost
\* map and tree of one are no object of the other, and no statement of one
\* changes them.
C23_SearchesIndependent ==
    [](PointersDisjoint /\ ReturnsAsAlone) /\ [][StepTouchesOwn]_vars

\* Both calls have returned, from different sources, each with a tree of two or
\* more nodes and one of them with a tree of all the nodes, and with different
\* cost maps.
C23_Witness ==
    /\ pc = "two"
    /\ runs[1].pc = "done"
    /\ runs[2].pc = "done"
    /\ runs[1].criteria.Source # runs[2].criteria.Source
    /\ Len(runs[1].response.SearchSpace.Nodes) >= 2
    /\ Len(runs[2].response.SearchSpace.Nodes) = NumNodes
    /\ ResponseIn(mem, runs[1]).Costs # ResponseIn(mem, runs[2]).Costs

(***************************************************************************)
(* Claims about Run called again, checked under SpecAgain.                 *)
(***************************************************************************)
\* The first call has returned after the loop, on an empty queue (a call that
\* returns inside the loop does so in the iteration that peeked the target).
FirstExhausted ==
    /\ runs # <<>>
    /\ runs[1].pc = "done"
    /\ ~reachTarget(runs[1].search, runs[1].min.Value)

\* Every call works on a value that points to the queue, the bitsets and the
\* cost map of the caller's value; the caller's tree stays empty.
CopySharesPointers ==
    /\ search.previous = EmptyGraph
    /\ \A i \in 1..Len(runs) :
          /\ runs[i].search.pq = search.pq
          /\ runs[i].search.visited = search.visited
          /\ runs[i].search.costs = search.costs
          /\ runs[i].search.sources = search.sources

\* After a call that exhausted the queue the caller's value has an empty queue,
\* and a second call on it returns an empty tree with the cost map of the first.
SecondRunEmpty ==
    FirstExhausted
    => /\ IsEmpty(deref(mem, search).pq)
       /\ deref(mem, search).previous = EmptyGraph
       /\ (Len(runs) >= 2 /\ runs[2].pc = "done")
          => /\ runs[2].response.SearchSpace = EmptyGraph
             /\ runs[2].response.Costs = runs[1].response.Costs
             /\ ResponseIn(mem, runs[2]).Costs = ResponseIn(mem, runs[1]).Costs

\* Once the first call has exhausted the queue no statement of a later call
\* changes the queue, the bitsets or the cost map.
SecondRunWritesNothing == FirstExhausted => mem' = mem

\* C36: Run works on a copy of the DijkstraSearch value that shares the queue,
\* the visited bitset and the cost map by reference but not the tree: after a
\* Run that exhausted the queue the value it was called on has an empty queue
\* and an empty tree, and a second Run on that value returns an empty tree
\* together with the cost map of the first Run, unchanged.
C36_SecondRunEmptyTree ==
    [](CopySharesPointers /\ SecondRunEmpty) /\ [][SecondRunWritesNothing]_vars

\* A second Run has returned an empty tree after a first Run that exhausted the
\* queue and returned a tree of all the nodes with a cost for each.
C36_Witness ==
    /\ pc = "again"
    /\ Len(runs) = 2
    /\ runs[2].pc = "done"
    /\ FirstExhausted
    /\ Len(runs[1].response.SearchSpace.Nodes) = NumNodes
    /\ runs[2].response.SearchSpace = EmptyGraph
    /\ DOMAIN ResponseIn(mem, runs[2]).Costs = NodeIDs
    /\ \E v \in NodeIDs : ResponseIn(mem, runs[2]).Costs[v] > 0

(***************************************************************************)
(* Claims about the heap, checked under SpecHeap.                          *)
(***************************************************************************)

\* C6: the costs read by Min before each DeleteMin while the heap is emptied,
\* after any sequence of Insert and DeleteMin calls, never decrease.
C6_DrainedNonDecreasing ==
    \A k \in 1..(Len(drained) - 1) : drained[k] <= drained[k + 1]

\* C6 witness: five Inserts and one DeleteMin, then the heap emptied of its four
\* entries, with equal and with different costs among them.
C6_Witness ==
    /\ pc = "drain"
    /\ IsEmpty(heap)
    /\ nops = 6
    /\ Len(drained) = 4
    /\ drained[1] < drained[2]
    /\ drained[2] = drained[3]
    /\ drained[3] < drained[4]

\* C7: on an empty heap Min returns ErrHeapEmpty with the zero HNode and
\* DeleteMin returns ErrHeapEmpty, the heap staying empty with size 0; an Insert
\* into an empty heap gives the one-entry heap; on a non-empty heap both return
\* nil, Min returning the root and leaving the heap as it was.
C7_EmptyHeapErrors ==
    /\ (lastCall.op = "Min" /\ IsEmpty(lastCall.before))
       => /\ lastCall.err = ErrHeapEmpty
          /\ lastCall.node = ZeroHNode
          /\ heap = lastCall.before
    /\ (lastCall.op = "DeleteMin" /\ IsEmpty(lastCall.before))
       => /\ lastCall.err = ErrHeapEmpty
          /\ heap = lastCall.before
    /\ (lastCall.op \in {"Min", "DeleteMin"} /\ IsEmpty(lastCall.before))
       => heap.size = 0 /\ heap.items = <<>>
    /\ (lastCall.op = "Insert" /\ IsEmpty(lastCall.before))
       => heap = [items |-> <<lastCall.node>>, size |-> 1]
    /\ (lastCall.op = "Min" /\ ~IsEmpty(lastCall.before))
       => /\ lastCall.err = NoError
          /\ lastCall.node = lastCall.before.items[1]
          /\ heap = lastCall.before
    /\ (lastCall.op = "DeleteMin" /\ ~IsEmpty(lastCall.before))
       => /\ lastCall.err = NoError
          /\ heap.size = lastCall.before.size - 1

\* C7 witness: a DeleteMin that failed on a heap emptied by earlier deletes.
C7_Witness ==
    /\ lastCall.op = "DeleteMin"
    /\ lastCall.err = ErrHeapEmpty
    /\ nops >= 3
    /\ heap = Create

\* The entries of the heap as the caller left it and as the step leaves it.
HeapEntries == Range(heap.items) \cup Range(heap'.items)

\* The step is an Insert, a DeleteMin on a non-empty heap (called on its own or
\* in the emptying loop), or another step.
IsInsertStep == nops' = nops + 1 /\ lastCall'.op = "Insert"

IsDeleteMinStep ==
    /\ ~IsEmpty(heap)
    /\ \/ nops' = nops + 1 /\ lastCall'.op = "DeleteMin"
       \/ pc = "drain" /\ drained' # drained

\* An Insert adds one copy of the whole record inserted and changes no other
\* entry; a DeleteMin on a non-empty heap removes one copy of an entry of the
\* least cost and changes no other entry; no other step changes the heap.
HeapKeepsEntries ==
    /\ IsInsertStep
       => \A x \in HeapEntries \cup {lastCall'.node} :
             Count(heap'.items, x)
               = Count(heap.items, x) + (IF x = lastCall'.node THEN 1 ELSE 0)
    /\ IsDeleteMinStep
       => \E m \in Range(heap.items) :
             /\ \A y \in Range(heap.items) : m.Cost <= y.Cost
             /\ \A x \in HeapEntries :
                   Count(heap'.items, x) = Count(heap.items, x) - (IF x = m THEN 1 ELSE 0)
    /\ ~(IsInsertStep \/ IsDeleteMinStep) => heap' = heap

\* Min on a non-empty heap returns one of its entries, of the least cost.
MinIsMinimum ==
    (lastCall.op = "Min" /\ ~IsEmpty(lastCall.before))
    => /\ lastCall.node \in Range(heap.items)
       /\ \A y \in Range(heap.items) : lastCall.node.Cost <= y.Cost

\* C34: the heap never merges, drops or alters entries: after any sequence of
\* Insert and successful DeleteMin calls its contents, as a multiset of whole
\* HNode records, are the inserted entries minus one entry of minimum cost per
\* DeleteMin; entries of the same Value, with equal or different costs, coexist;
\* Min returns an entry whose cost is the minimum of the multiset.
C34_HeapKeepsEntries == []MinIsMinimum /\ [][HeapKeepsEntries]_vars

\* Min was called on a heap that holds three entries of one Value, two of them
\* equal in every field and one costlier, and an entry of another Value, after a
\* DeleteMin.
C34_Witness ==
    /\ lastCall.op = "Min"
    /\ nops = 6
    /\ heap.size = 4
    /\ \E x, y \in Range(heap.items) :
          /\ x.Value = y.Value
          /\ x.Cost < y.Cost
          /\ Count(heap.items, x) = 2
          /\ lastCall.node = x
    /\ \E z \in Range(heap.items) : z.Value # lastCall.node.Value

\* The heap order on the array, and size = len(items).
HeapOrdered ==
    /\ heap.size = Len(heap.items)
    /\ \A i \in 1..(heap.size - 1) : parent(heap, i).Cost <= At(heap.items, i).Cost

\* The heap handed to heapifyUp by the Insert call last made.
AfterAppend == [items |-> Append(lastCall.before.items, lastCall.node),
             size |-> lastCall.before.size + 1]

\* heapifyUp reads items[i] and items[parentIndex(i)] inside the array for every
\* index i its loop takes; at index 0 the parent index is 0 and the loop stops.
SiftUpInBounds ==
    lastCall.op = "Insert"
    => LET taken == heapifyUpPath(AfterAppend, AfterAppend.size - 1)
       IN /\ \A k \in 1..Len(taken) :
                /\ taken[k] \in 0..(AfterAppend.size - 1)
                /\ parentIndex(taken[k]) \in 0..(AfterAppend.size - 1)
                /\ hasParent(AfterAppend, taken[k])
          /\ \A k \in 1..(Len(taken) - 1) : taken[k] > 0 /\ taken[k + 1] = parentIndex(taken[k])
          /\ parentIndex(0) = 0
          /\ ~mustMoveUp(heap, 0)

\* C35: after every Insert and every DeleteMin the heap array has
\* items[(i-1)/2].Cost <= items[i].Cost for every index i >= 1 and
\* size = len(items); the sift-up loop stops at index 0, where the parent index
\* it computes is 0 itself, and reads nothing outside the array.
C35_HeapOrder == HeapOrdered /\ SiftUpInBounds

\* An Insert into a heap of four entries moved the new entry, cheaper than all of
\* them, from index 4 through index 1 to index 0, where the loop stopped.
C35_Witness ==
    /\ lastCall.op = "Insert"
    /\ lastCall.before.size = 4
    /\ heapifyUpPath(AfterAppend, 4) = <<4, 1, 0>>
    /\ At(heap.items, 0) = lastCall.node
    /\ \A i \in 1..4 : At(heap.items, i).Cost > lastCall.node.Cost

(***************************************************************************)
(* Claims about the Graph, checked under SpecGraph.                        *)
(***************************************************************************)
\* C8: for all nodes a, b and every weight and metadata, OutgoingEdges[a] holds
\* as many edges to b with them as IncomingEdges[b] holds edges from a with them.
C8_AdjacencyMirror ==
    \A a \in GraphIDs(g), b \in GraphIDs(g), e \in AllEdges(g) :
        Count(At(g.OutgoingEdges, a), Edge(b, e.Weight, e.Metadata))
          = Count(At(g.IncomingEdges, b), Edge(a, e.Weight, e.Metadata))

\* C8 witness: a one-way relation made after a relation of another direction,
\* so that a node has more outgoing than incoming edges.
C8_Witness ==
    /\ nops = 2
    /\ lastCall.op = "RelateNodes"
    /\ lastCall.dir = LeftToRight
    /\ lastCall.a # lastCall.b
    /\ Len(At(g.OutgoingEdges, lastCall.a)) > Len(At(g.IncomingEdges, lastCall.a))
    /\ Len(At(g.IncomingEdges, lastCall.a)) > 0

\* The edges RelateNodes(a, b, w, dir, m) is to append to OutgoingEdges[x], and,
\* being the same, to IncomingEdges[x].
Appended(c, x) ==
    (IF x = c.a /\ c.dir \in {Bidirectional, LeftToRight}
     THEN <<Edge(c.b, c.weight, c.metaData)>> ELSE <<>>)
    \o (IF x = c.b /\ c.dir \in {Bidirectional, RightToLeft}
        THEN <<Edge(c.a, c.weight, c.metaData)>> ELSE <<>>)

AppendedIncoming(c, x) ==
    (IF x = c.b /\ c.dir \in {Bidirectional, LeftToRight}
     THEN <<Edge(c.a, c.weight, c.metaData)>> ELSE <<>>)
    \o (IF x = c.a /\ c.dir \in {Bidirectional, RightToLeft}
        THEN <<Edge(c.b, c.weight, c.metaData)>> ELSE <<>>)

\* C9: a RelateNodes call appends the entries its direction dictates, with the
\* call's weight and metadata, and changes nothing else of the graph.
C9_RelateAppendsExactly ==
    [][lastCall'.op = "RelateNodes"
       => /\ g'.Nodes = g.Nodes
          /\ Len(g'.OutgoingEdges) = Len(g.OutgoingEdges)
          /\ Len(g'.IncomingEdges) = Len(g.IncomingEdges)
          /\ \A x \in GraphIDs(g) :
               /\ At(g'.OutgoingEdges, x) = At(g.OutgoingEdges, x) \o Appended(lastCall', x)
               /\ At(g'.IncomingEdges, x)
                    = At(g.IncomingEdges, x) \o AppendedIncoming(lastCall', x)]_vars

\* C9 witness: a RightToLeft relation of two different nodes made on a graph
\* that already had edges.
C9_Witness ==
    /\ nops = 2
    /\ lastCall.op = "RelateNodes"
    /\ lastCall.dir = RightToLeft
    /\ lastCall.a # lastCall.b
    /\ Len(At(g.OutgoingEdges, lastCall.b)) >= 2
    /\ Len(At(g.IncomingEdges, lastCall.a)) >= 2

\* C10: Nodes[i].ID = i for every index i, the three collections have one
\* length, and an AddNode call returned the node count before it and left the
\* new node with two empty adjacency lists.
C10_NodeIdIsIndex ==
    /\ \A i \in GraphIDs(g) : At(g.Nodes, i).ID = i
    /\ Len(g.OutgoingEdges) = Len(g.Nodes)
    /\ Len(g.IncomingEdges) = Len(g.Nodes)
    /\ lastCall.op = "AddNode"
       => /\ lastCall.id = Len(g.Nodes) - 1
          /\ At(g.OutgoingEdges, lastCall.id) = <<>>
          /\ At(g.IncomingEdges, lastCall.id) = <<>>
          /\ At(g.Nodes, lastCall.id) = [lastCall.n EXCEPT !.ID = lastCall.id]

\* C10 witness: a second node added, after a relation, from a Node whose ID
\* field was not the id it got.
C10_Witness ==
    /\ lastCall.op = "AddNode"
    /\ lastCall.id = 1
    /\ lastCall.n.ID # lastCall.id
    /\ nops >= 1

(***************************************************************************)
(* Claims about the k-d tree, checked under SpecKD.                        *)
(***************************************************************************)
Stored == Range(points)

\* The query vector q has as many components as the stored points.
SameDimensionality(q) == points # <<>> => Len(q.Components) = Len(points[1].Components)

\* distance(p, center) <= radius for the Euclidean distance, which is never negative.
withinRadius(p, center, radius) ==
    radius >= 0 /\ squaredDistance(p, center) <= radius * radius

\* The result of the last RangeQuery holds p as often as it is stored when p is
\* within the radius of the center, and not at all otherwise.
RangeQueryExact ==
    \A p \in Stored :
        Count(lastCall.result, p) =
            IF withinRadius(p, lastCall.center, lastCall.radius) THEN Count(points, p) ELSE 0

\* C11: for every point set, center and radius, a stored point is in the result
\* of RangeQuery exactly when its distance to the center is at most the radius,
\* as many times as it is stored.
C11_RangeQueryExact ==
    (lastCall.op = "RangeQuery" /\ SameDimensionality(lastCall.center))
    => ~lastCall.panic /\ RangeQueryExact

\* The same for the radii that are not negative.
C11_NonNegativeRadius ==
    (lastCall.op = "RangeQuery" /\ SameDimensionality(lastCall.center) /\ lastCall.radius >= 0)
    => /\ ~lastCall.panic
       /\ RangeQueryExact
       /\ Range(lastCall.result) \subseteq Stored

\* A query with a positive radius on a tree of three levels in which two stored
\* points share the root's coordinate on the splitting axis, one of them inside
\* the radius and one outside.
C11_NonNegativeWitness ==
    /\ lastCall.op = "RangeQuery"
    /\ SameDimensionality(lastCall.center)
    /\ lastCall.radius > 0
    /\ Len(points) = MaxPoints
    /\ \E p, q \in Stored :
         /\ p # kdtree.root[1].v
         /\ q # kdtree.root[1].v
         /\ p.Components[1] = kdtree.root[1].v.Components[1]
         /\ q.Components[1] = kdtree.root[1].v.Components[1]
         /\ withinRadius(p, lastCall.center, lastCall.radius)
         /\ ~withinRadius(q, lastCall.center, lastCall.radius)
         /\ Count(lastCall.result, p) = 1

\* The vectors stored in the subtree np points to.
RECURSIVE subtreePoints(_)
subtreePoints(np) ==
    IF np = nil
    THEN {}
    ELSE {np[1].v} \cup subtreePoints(np[1].l) \cup subtreePoints(np[1].r)

C13_StoredPointFound ==
    \A p \in Stored :
        (lastCall.op = "FindNearest" /\ lastCall.target.Components = p.Components)
        => /\ ~lastCall.result.panic
           /\ lastCall.result.dist = 0
           /\ lastCall.result.v \in Stored
           /\ lastCall.result.v.Components = p.Components
           /\ (\A q \in Stored : q.Components = p.Components => q = p)
              => lastCall.result.v.ID = p.ID

\* The target is a stored point found two levels below the root, with other
\* stored points sharing one of its coordinates and none sharing both.
C13_Witness ==
    /\ lastCall.op = "FindNearest"
    /\ SameDimensionality(lastCall.target)
    /\ Len(points) = MaxPoints
    /\ lastCall.result.dist = 0
    /\ lastCall.result.v # kdtree.root[1].v
    /\ kdtree.root[1].l # nil
    /\ lastCall.result.v # kdtree.root[1].l[1].v
    /\ lastCall.result.v \in subtreePoints(kdtree.root[1].l)
    /\ lastCall.result.v.Components[1] = kdtree.root[1].v.Components[1]
    /\ \A q \in Stored : q.Components = lastCall.target.Components => q = lastCall.result.v

\* C26: on an index built from zero points FindNearest panics and returns no
\* point and no distance to its caller, whatever the target; RangeQuery returns
\* an empty result and does not panic, whatever the center and the radius.
C26_EmptyIndex ==
    points = <<>>
    => /\ kdtree.root = nil
       /\ lastCall.op = "FindNearest" => lastCall.result.panic
       /\ lastCall.op = "RangeQuery" => ~lastCall.panic /\ lastCall.result = <<>>

\* FindNearest was called on the index built from zero points with a target of
\* MaxDim components, and panicked.
C26_Witness ==
    /\ points = <<>>
    /\ lastCall.op = "FindNearest"
    /\ Len(lastCall.target.Components) = MaxDim
    /\ lastCall.result.panic

\* The last query was made on a non-empty index with a vector of another number
\* of components than the stored points.
Mismatched(q) == points # <<>> /\ Len(q.Components) # Len(points[1].Components)

\* C27: a FindNearest or RangeQuery call whose query vector has fewer or more
\* components than the indexed points panics, and returns no result.
C27_MismatchAborts ==
    /\ (lastCall.op = "RangeQuery" /\ Mismatched(lastCall.center)) => lastCall.panic
    /\ (lastCall.op = "FindNearest" /\ Mismatched(lastCall.target)) => lastCall.result.panic

\* The same for the query vectors with fewer components than the indexed points.
C27_FewerComponentsAbort ==
    /\ (lastCall.op = "RangeQuery" /\ Mismatched(lastCall.center)
          /\ Len(lastCall.center.Components) < Len(points[1].Components))
       => lastCall.panic
    /\ (lastCall.op = "FindNearest" /\ Mismatched(lastCall.target)
          /\ Len(lastCall.target.Components) < Len(points[1].Components))
       => lastCall.result.panic

\* A RangeQuery with more components than the indexed points never panics.
C27_RangeQueryMoreComponents ==
    (lastCall.op = "RangeQuery" /\ Mismatched(lastCall.center)
       /\ Len(lastCall.center.Components) > Len(points[1].Components))
    => ~lastCall.panic

\* The vectors stored in the subtree np points to, left subtree first.
RECURSIVE subtreeVectors(_)
subtreeVectors(np) ==
    IF np = nil
    THEN <<>>
    ELSE subtreeVectors(np[1].l) \o <<np[1].v>> \o subtreeVectors(np[1].r)

\* At every node of the subtree np points to, of n points, the left subtree has
\* floor(n/2) points and the right one the n - floor(n/2) - 1 others.
RECURSIVE halved(_)
halved(np) ==
    \/ np = nil
    \/ LET n == Len(subtreeVectors(np))
           nl == Len(subtreeVectors(np[1].l))
           nr == Len(subtreeVectors(np[1].r))
       IN /\ nl = n \div 2
          /\ nr = n - (n \div 2) - 1
          /\ nl - nr \in {0, 1}
          /\ halved(np[1].l)
          /\ halved(np[1].r)

\* The vectors of s that have the components cs.
WithComponents(s, cs) == {k \in 1..Len(s) : s[k].Components = cs}

\* C38: BuildKDTree stores every input point exactly once (the node values are,
\* as a multiset, the input vectors, vectors of equal components included) and
\* the tree is balanced: at every node of a subtree of n points the left subtree
\* has floor(n/2) points and the right one n - floor(n/2) - 1, sizes that differ
\* by at most 1; an empty input gives an empty tree.
C38_BuildStoresAllBalanced ==
    pc = "kd"
    => LET stored == subtreeVectors(kdtree.root)
       IN /\ Len(stored) = Len(points)
          /\ \A x \in Range(points) \cup Range(stored) : Count(stored, x) = Count(points, x)
          /\ \A x \in Range(points) :
                Cardinality(WithComponents(stored, x.Components))
                  = Cardinality(WithComponents(points, x.Components))
          /\ halved(kdtree.root)
          /\ (points = <<>> => kdtree.root = nil)

\* An index built of four points, two of them of equal components: the root has
\* a left subtree of two points and a right subtree of one.
C38_Witness ==
    /\ pc = "kd"
    /\ Len(points) = 4
    /\ \E i, j \in 1..4 : i # j /\ points[i].Components = points[j].Components
    /\ Len(subtreeVectors(kdtree.root[1].l)) = 2
    /\ Len(subtreeVectors(kdtree.root[1].r)) = 1
    /\ Len(subtreeVectors(kdtree.root[1].l[1].l)) = 1

\* In the subtree np points to, whose root is at the given depth, every node has
\* in its left subtree only points not above it on its axis, and in its right
\* subtree only points not below it.
RECURSIVE splitsByAxis(_, _, _)
splitsByAxis(np, depth, k) ==
    \/ np = nil
    \/ LET axis == depth % k
           here == At(np[1].v.Components, axis)
       IN /\ \A p \in subtreePoints(np[1].l) : At(p.Components, axis) <= here
          /\ \A p \in subtreePoints(np[1].r) : At(p.Components, axis) >= here
          /\ splitsByAxis(np[1].l, depth + 1, k)
          /\ splitsByAxis(np[1].r, depth + 1, k)

\* C39: in a tree built by BuildKDTree, for every node at depth d, with
\* axis = d mod k, every point of its left subtree has coordinate[axis] <= the
\* node's and every point of its right subtree coordinate[axis] >= the node's;
\* points equal to the node on that axis lie on either side.
C39_SubtreesSplitByAxis ==
    (pc = "kd" /\ points # <<>>)
    => splitsByAxis(kdtree.root, 0, Len(points[1].Components))

\* An index of four points of two components whose root has a point equal to it
\* on axis 0 in its left subtree and another in its right subtree, and a point
\* strictly below it on axis 0; the left child has a point strictly below it on
\* axis 1.
C39_Witness ==
    /\ pc = "kd"
    /\ Len(points) = 4
    /\ Len(points[1].Components) = 2
    /\ LET root == kdtree.root[1]
       IN /\ \E p \in subtreePoints(root.l) : At(p.Components, 0) = At(root.v.Components, 0)
          /\ \E p \in subtreePoints(root.r) : At(p.Components, 0) = At(root.v.Components, 0)
          /\ \E p \in subtreePoints(root.l) : At(p.Components, 0) < At(root.v.Components, 0)
          /\ \E p \in subtreePoints(root.l[1].l) :
                At(p.Components, 1) < At(root.l[1].v.Components, 1)

(***************************************************************************)
(* Claims about the Bitset, checked under SpecBitset.                      *)
(***************************************************************************)
\* The indexes whose last Set call had value = true.
LastSetTrue == {i \in BitIndexes : written[i]}

Maximum(S) == CHOOSE x \in S : \A y \in S : x >= y

\* C24: after any sequence of Set calls on indexes >= 0, Exists(i) is true
\* exactly when the last Set on i had value = true (false when i was never
\* set), a Set on i leaves every other index as it was, and Len() is the highest
\* index that is set plus 1, 0 when none is; Exists and Len change nothing.
C24_BitsetTracksSets ==
    /\ \A i \in BitIndexes : Exists(bitset, i) <=> written[i]
    /\ BitLen(bitset) = IF LastSetTrue = {} THEN 0 ELSE Maximum(LastSetTrue) + 1
    /\ lastCall.op = "Set"
       => /\ Exists(bitset, lastCall.i) <=> lastCall.value
          /\ \A j \in BitIndexes \ {lastCall.i} : Exists(bitset, j) <=> Exists(lastCall.before, j)
    /\ lastCall.op = "Exists"
       => /\ bitset = lastCall.before
          /\ lastCall.result <=> written[lastCall.i]
    /\ lastCall.op = "Len"
       => /\ bitset = lastCall.before
          /\ lastCall.result = IF LastSetTrue = {} THEN 0 ELSE Maximum(LastSetTrue) + 1

\* A Set call cleared the highest bit that was set, with lower bits set: Len
\* dropped by more than 1 and is not 0.
C24_Witness ==
    /\ lastCall.op = "Set"
    /\ ~lastCall.value
    /\ BitLen(lastCall.before) = lastCall.i + 1
    /\ BitLen(bitset) < lastCall.i
    /\ BitLen(bitset) > 0

====
